---- MODULE Spec2Model ----
(***************************************************************************)
(* A model of einsteinpy.symbolic (tensors/weyl.py, tensors/levicivita.py, *)
(* scalars/*.py, scalar.py): the derivation constructors of the curvature  *)
(* pipeline, the contraction sequences of the scalar invariants, and the   *)
(* methods of Scalar.                                                      *)
(*                                                                         *)
(* Values.  A component of a sympy array is modelled by its exact rational *)
(* value <<numerator, denominator>> (lowest terms, denominator > 0): the   *)
(* value of the symbolic expression at a sample point.  sympy.simplify     *)
(* does not change a value.                                                *)
(*                                                                         *)
(* Arrays.  A sympy N-dim array is a record [shape, val]: shape is the     *)
(* sequence of axis lengths, val maps every index tuple (0-based entries,  *)
(* one per axis) to its component.  A rank-0 array has shape <<>> and one  *)
(* component at <<>>.                                                      *)
(***************************************************************************)
EXTENDS Integers, Sequences, FiniteSets, TLC

VARIABLES
    self,        \* the object an operation is called on (or its array operands)
    op,          \* the operation last called
    arg_metric,  \* its metric / parent_metric argument (0 is None)
    arg_config,  \* its newconfig argument (<<>> when it has none)
    ret,         \* the object it returned (NoObject when it raised)
    exc,         \* the exception it raised ("none" when it returned)
    chain,       \* how many returned objects the caller has gone on to use
    first        \* in a chained call a.f(..).g(..): the object a.f(..) returned

vars == <<self, op, arg_metric, arg_config, ret, exc, chain, first>>

----------------------------------------------------------------------------
(* Exact rational arithmetic (sympy's number arithmetic).                   *)

RECURSIVE GCD(_, _)
GCD(a, b) == IF b = 0 THEN a ELSE GCD(b, a % b)

Abs(a) == IF a < 0 THEN -a ELSE a

Rat(n, d) ==
    LET g == GCD(Abs(n), Abs(d))
    IN  IF d < 0 THEN <<(-n) \div g, (-d) \div g>> ELSE <<n \div g, d \div g>>

Num(n) == <<n, 1>>

RAdd(p, q) ==
    IF p[2] = 1 /\ q[2] = 1 THEN <<p[1] + q[1], 1>>
    ELSE Rat(p[1] * q[2] + q[1] * p[2], p[2] * q[2])

RNeg(p) == <<-p[1], p[2]>>

RSub(p, q) == RAdd(p, RNeg(q))

RMul(p, q) ==
    IF p[2] = 1 /\ q[2] = 1 THEN <<p[1] * q[1], 1>>
    ELSE Rat(p[1] * q[1], p[2] * q[2])

\* p / q, q nonzero
RDiv(p, q) == Rat(p[1] * q[2], p[2] * q[1])

RAbs(p) == <<Abs(p[1]), p[2]>>

\* the sum f[0] + ... + f[n-1]
RECURSIVE RSum(_, _)
RSum(f, n) == IF n = 0 THEN Num(0) ELSE RAdd(RSum(f, n - 1), f[n - 1])

----------------------------------------------------------------------------
(* sympy arrays, tensorproduct and tensorcontraction.                       *)

\* the index tuples of an array of the given shape; every array of the
\* program has all its axes of one length, the dimension of the space
Indices(shape) ==
    IF Len(shape) = 0 THEN {<<>>} ELSE [1..Len(shape) -> 0..(shape[1] - 1)]

\* sympy.Array(...): the array with its components evaluated
Array(shape, f) == [shape |-> shape, val |-> f @@ <<>>]

Cube(n, d) == [j \in 1..n |-> d]

\* the tuple s without its (1-based) positions a < b
Drop2(s, a, b) == SubSeq(s, 1, a - 1) \o SubSeq(s, a + 1, b - 1) \o SubSeq(s, b + 1, Len(s))

\* the tuple that has k at the (1-based) positions a < b and s elsewhere
Insert2(s, a, b, k) ==
    SubSeq(s, 1, a - 1) \o <<k>> \o SubSeq(s, a, b - 2) \o <<k>> \o SubSeq(s, b - 1, Len(s))

\* sympy.tensorproduct(A, B): the axes of A followed by the axes of B
tensorproduct(A, B) ==
    LET nA == Len(A.shape)
        shape == A.shape \o B.shape
    IN  [shape |-> shape,
         val |-> [s \in Indices(shape) |->
                     RMul(A.val[SubSeq(s, 1, nA)], B.val[SubSeq(s, nA + 1, Len(shape))])]]

\* sympy.tensorcontraction(A, (a, b)), axes numbered from 0: the sum over
\* the diagonal of axes a and b, the other axes kept in their order
tensorcontraction(A, a, b) ==
    LET lo == IF a < b THEN a + 1 ELSE b + 1
        hi == IF a < b THEN b + 1 ELSE a + 1
        shape == Drop2(A.shape, lo, hi)
    IN  [shape |-> shape,
         val |-> [s \in Indices(shape) |->
                     RSum([k \in 0..(A.shape[lo] - 1) |-> A.val[Insert2(s, lo, hi, k)]],
                          A.shape[lo])]]

\* the single component of a rank-0 array
Expr(A) == A.val[<<>>]

\* for i in pairs: A = tensorcontraction(A, i)
RECURSIVE ContractSeq(_, _)
ContractSeq(A, pairs) ==
    IF pairs = <<>> THEN A
    ELSE ContractSeq(tensorcontraction(A, pairs[1][1], pairs[1][2]), Tail(pairs))

----------------------------------------------------------------------------
(* The contraction sequences of the scalar invariants.                      *)

\* a slip in the first pair: axis 0 summed against axis 1 of the second array
kretschmann_scalar_crossed(riemann_cov, riemann_con) ==
    ContractSeq(tensorproduct(riemann_cov, riemann_con),
                <<<<0, 5>>, <<0, 3>>, <<0, 2>>, <<0, 1>>>>)

\* KretschmannScalar.from_riemann: R_{ijkl} R^{ijkl}
kretschmann_scalar(riemann_cov, riemann_con) ==
    ContractSeq(tensorproduct(riemann_cov, riemann_con),
                <<<<0, 4>>, <<0, 3>>, <<0, 2>>, <<0, 1>>>>)

\* each array traced with itself instead of against the other
second_ricci_traces(ricci_cov, ricci_con) ==
    ContractSeq(tensorproduct(ricci_cov, ricci_con), <<<<0, 1>>, <<0, 1>>>>)

\* SecondRicciInvariant.from_riccitensor: R_{ij} R^{ij}
second_ricci(ricci_cov, ricci_con) ==
    ContractSeq(tensorproduct(ricci_cov, ricci_con), <<<<0, 2>>, <<0, 1>>>>)

\* the cube of the trace instead of the trace of the cube
third_ricci_traces(ricci_mix) ==
    ContractSeq(tensorproduct(tensorproduct(ricci_mix, ricci_mix), ricci_mix),
                <<<<0, 1>>, <<0, 1>>, <<0, 1>>>>)

\* ThirdRicciInvariant.from_riccitensor: R_i^j R_j^k R_k^i
third_ricci(ricci_mix) ==
    ContractSeq(tensorproduct(tensorproduct(ricci_mix, ricci_mix), ricci_mix),
                <<<<0, 5>>, <<0, 1>>, <<0, 1>>>>)


----------------------------------------------------------------------------
\* np.product(shape)
RECURSIVE product(_)
product(shape) == IF shape = <<>> THEN 1 ELSE shape[1] * product(Tail(shape))

\* a slip in the unravelling: the last two indices read the same digit
unravel_index_repeating(t, shape) ==
    [a \in 1..Len(shape) |->
        (t \div product(SubSeq(shape, (IF a = Len(shape) - 1 THEN a + 2 ELSE a + 1), Len(shape))))
            % shape[a]]

\* np.unravel_index(t, shape): the index tuple of the t-th component in row-major order
unravel_index(t, shape) ==
    [a \in 1..Len(shape) |-> (t \div product(SubSeq(shape, a + 1, Len(shape)))) % shape[a]]

\* acc = 0; for t in range(lo, hi): acc += f[t]
RECURSIVE Accumulate(_, _, _)
Accumulate(f, lo, hi) ==
    IF hi <= lo THEN Num(0)
    ELSE IF hi = lo + 1 THEN f[lo]
    ELSE RAdd(Accumulate(f, lo, (lo + hi) \div 2), Accumulate(f, (lo + hi) \div 2, hi))

\* for t in range(np.product(shape)): i,j,k,l = np.unravel_index(t, shape)
\*     for n in range(np.product(shape[0:2])): o,p = np.unravel_index(n, shape[0:2])
\*         acc += summand[i,j,k,l,o,p]
mixed_loops(shape, summand) ==
    Accumulate([t \in 0..(product(shape) - 1) |->
                   Accumulate([n \in 0..(product(SubSeq(shape, 1, 2)) - 1) |->
                                  summand[unravel_index(t, shape)
                                          \o unravel_index(n, SubSeq(shape, 1, 2))]],
                              0, product(SubSeq(shape, 1, 2)))],
               0, product(shape))

\* ThirdMixedInvariant.from_riemann, the loops:
\* R^{ij} R^{kl} (C_{oij}^p C_{pkl}^o - *C_{oij}^p *C_{pkl}^o), s = (i,j,k,l,o,p)
third_mixed(ricci, weyl_mix, weyl_dual) ==
    mixed_loops(weyl_mix.shape,
        [s \in Indices(weyl_mix.shape \o SubSeq(weyl_mix.shape, 1, 2)) |->
            RMul(RMul(ricci.val[<<s[1], s[2]>>], ricci.val[<<s[3], s[4]>>]),
                 RSub(RMul(weyl_mix.val[<<s[5], s[1], s[2], s[6]>>],
                           weyl_mix.val[<<s[6], s[3], s[4], s[5]>>]),
                      RMul(weyl_dual.val[<<s[5], s[1], s[2], s[6]>>],
                           weyl_dual.val[<<s[6], s[3], s[4], s[5]>>])))])

\* FourthMixedInvariant.from_riemann, the loops:
\* -R^{ij} R^{kl} (*C_{oij}^p C_{pkl}^o + C_{oij}^p *C_{pkl}^o)
fourth_mixed(ricci, weyl_mix, weyl_dual) ==
    mixed_loops(weyl_mix.shape,
        [s \in Indices(weyl_mix.shape \o SubSeq(weyl_mix.shape, 1, 2)) |->
            RMul(RMul(RMul(Num(-1), ricci.val[<<s[1], s[2]>>]), ricci.val[<<s[3], s[4]>>]),
                 RAdd(RMul(weyl_dual.val[<<s[5], s[1], s[2], s[6]>>],
                           weyl_mix.val[<<s[6], s[3], s[4], s[5]>>]),
                      RMul(weyl_mix.val[<<s[5], s[1], s[2], s[6]>>],
                           weyl_dual.val[<<s[6], s[3], s[4], s[5]>>])))])

\* SeventhMixedInvariant.from_riemann, the loops:
\* 1/16 R^{ij} R^{kl} (C_{oijp} C^o_{kl}^p + *C_{oijp} *C^o_{kl}^p)
seventh_mixed(ricci, weyl_mix1, weyl_mix2, weyl_dual1, weyl_dual2) ==
    mixed_loops(weyl_mix1.shape,
        [s \in Indices(weyl_mix1.shape \o SubSeq(weyl_mix1.shape, 1, 2)) |->
            RMul(RMul(RMul(<<1, 16>>, ricci.val[<<s[1], s[2]>>]), ricci.val[<<s[3], s[4]>>]),
                 RAdd(RMul(weyl_mix1.val[<<s[5], s[1], s[2], s[6]>>],
                           weyl_mix2.val[<<s[5], s[3], s[4], s[6]>>]),
                      RMul(weyl_dual1.val[<<s[5], s[1], s[2], s[6]>>],
                           weyl_dual2.val[<<s[5], s[3], s[4], s[6]>>])))])

\* the second Weyl axis summed against the second Ricci axis, the third
\* against the first
first_mixed_crossed(weyl, ricci_con, ricci_mix) ==
    ContractSeq(tensorproduct(ContractSeq(tensorproduct(weyl, ricci_con),
                                          <<<<1, 5>>, <<1, 3>>>>),
                              ricci_mix),
                <<<<0, 3>>, <<0, 1>>>>)

\* FirstMixedInvariant.from_riemann, the contractions:
\* C_{ikl}^j R^{kl} R_j^i
first_mixed(weyl, ricci_con, ricci_mix) ==
    ContractSeq(tensorproduct(ContractSeq(tensorproduct(weyl, ricci_con),
                                          <<<<1, 4>>, <<1, 3>>>>),
                              ricci_mix),
                <<<<0, 3>>, <<0, 1>>>>)

\* the index letters of the axes that remain after the contractions
RECURSIVE remaining_config(_, _)
remaining_config(config, pairs) ==
    IF pairs = <<>> THEN config
    ELSE remaining_config(Drop2(config, pairs[1][1] + 1, pairs[1][2] + 1), Tail(pairs))

\* the index letters of the two axes each contraction sums over
RECURSIVE joined_letters(_, _)
joined_letters(config, pairs) ==
    IF pairs = <<>> THEN <<>>
    ELSE <<<<config[pairs[1][1] + 1], config[pairs[1][2] + 1]>>>>
         \o joined_letters(Drop2(config, pairs[1][1] + 1, pairs[1][2] + 1), Tail(pairs))

\* FirstMixedInvariant.from_riemann: the letters joined by its four
\* contractions, the Weyl tensor being in config 'lllu', the Ricci tensors
\* in 'uu' and 'lu'
first_mixed_joined ==
    joined_letters(<<"l", "l", "l", "u">> \o <<"u", "u">>, <<<<1, 4>>, <<1, 3>>>>)
    \o joined_letters(remaining_config(<<"l", "l", "l", "u">> \o <<"u", "u">>,
                                       <<<<1, 4>>, <<1, 3>>>>) \o <<"l", "u">>,
                      <<<<0, 3>>, <<0, 1>>>>)

\* the intermediate contracted with the Weyl array in the order of
\* FirstWeylInvariant, its first two axes against the first two of the array
third_weyl_straight(weyl) ==
    ContractSeq(tensorproduct(ContractSeq(tensorproduct(weyl, weyl), <<<<2, 4>>, <<2, 3>>>>),
                              weyl),
                <<<<0, 4>>, <<0, 3>>, <<0, 2>>, <<0, 1>>>>)

\* ThirdWeylInvariant.from_weyltensor, the contractions:
\* C_{ij}^{kl} C_{kl}^{op} C_{op}^{ij}
third_weyl(weyl) ==
    ContractSeq(tensorproduct(ContractSeq(tensorproduct(weyl, weyl), <<<<2, 4>>, <<2, 3>>>>),
                              weyl),
                <<<<0, 6>>, <<0, 5>>, <<0, 2>>, <<0, 1>>>>)

(* Python objects and calls.  A call returns an object or raises: its      *)
(* outcome is [exc, val], exc = "none" when it returned val.                *)

NoObject == [cls |-> "None"]

Return(obj) == [exc |-> "none", val |-> obj]
Throw(e) == [exc |-> e, val |-> NoObject]

\* v = e; F(v): an assignment to a local name, e evaluated once
Bind(e, F(_)) == CHOOSE r \in {F(v) : v \in {e}} : TRUE

\* the index configurations: one "u" or "l" per axis
ll == <<"l", "l">>
ul == <<"u", "l">>
lu == <<"l", "u">>
uu == <<"u", "u">>
llll == <<"l", "l", "l", "l">>
ulll == <<"u", "l", "l", "l">>
uull == <<"u", "u", "l", "l">>
uuuu == <<"u", "u", "u", "u">>

----------------------------------------------------------------------------
(* The metrics.  A tensor refers to its parent metric by the metric's      *)
(* place in MetricTable (0: no parent metric), the reference it shares     *)
(* with the caller; MetricTensor(m) is the metric object referred to.       *)

RECURSIVE Det(_, _, _)
\* the determinant of the rows and columns of M listed, by the first row
Det(M, rows, cols) ==
    IF rows = <<>> THEN Num(1)
    ELSE RSum([c \in 0..(Len(cols) - 1) |->
                  LET term == RMul(M[<<rows[1], cols[c + 1]>>],
                                   Det(M, Tail(rows),
                                       SubSeq(cols, 1, c) \o SubSeq(cols, c + 2, Len(cols))))
                  IN  IF c % 2 = 0 THEN term ELSE RNeg(term)],
              Len(cols))

Range0(d) == [j \in 1..d |-> j - 1]
Without(seq, j) == SubSeq(seq, 1, j) \o SubSeq(seq, j + 2, Len(seq))

\* sympy Matrix.det() and Matrix.inv() of a d x d array
MatDet(A) == Det(A.val, Range0(A.shape[1]), Range0(A.shape[1]))

MatInv(A) ==
    LET d == A.shape[1]
        det == MatDet(A)
    IN  Array(A.shape, [s \in Indices(A.shape) |->
            LET minor == Det(A.val, Without(Range0(d), s[2]), Without(Range0(d), s[1]))
                cof == IF (s[1] + s[2]) % 2 = 0 THEN minor ELSE RNeg(minor)
            IN  RDiv(cof, det)])

Diag(entries) ==
    Array(Cube(2, Len(entries)),
          [s \in Indices(Cube(2, Len(entries))) |->
              IF s[1] = s[2] THEN Num(entries[s[1] + 1]) ELSE Num(0)])

\* the metric with g[0,1] = g[1,0] = 1 added to Diag(entries)
Sheared(entries) ==
    Array(Cube(2, Len(entries)),
          [s \in Indices(Cube(2, Len(entries))) |->
              IF s[1] = s[2] THEN Num(entries[s[1] + 1])
              ELSE IF s[1] + s[2] = 1 THEN Num(1) ELSE Num(0)])

AllSyms == <<"t", "x", "y", "z", "w">>

MetricArrays ==
    << Diag(<<-1, 1>>),
       Diag(<<-1, 1, 1>>),
       Sheared(<<-1, 3, 1>>),
       Diag(<<-1, 1, 1, 1>>),
       Sheared(<<-1, 3, 1, 1>>),
       Diag(<<-1, 1, 1, 1, 1>>) >>

\* the constant sectional curvature of the space each metric describes
Curvature == <<0, 1, 0, 0, 1, 0>>

\* A component of a metric is a function of the coordinates; where the
\* pipeline differentiates it, the model carries the values of its partial
\* derivatives at the sample point: d1[k, i, j] is d_k g_ij and
\* d2[k, l, i, j] is d_k d_l g_ij.

\* at the origin of normal coordinates of a space of constant curvature K:
\* d_k g_ij = 0 and d_k d_l g_ij = -(K/3) (2 g_ij g_kl - g_il g_jk - g_ik g_jl)
NormalD1(g) == Array(Cube(3, g.shape[1]), [s \in Indices(Cube(3, g.shape[1])) |-> Num(0)])

NormalD2(g, K) ==
    Array(Cube(4, g.shape[1]), [s \in Indices(Cube(4, g.shape[1])) |->
        RMul(Rat(-K, 3),
             RSub(RSub(RMul(Num(2), RMul(g.val[<<s[3], s[4]>>], g.val[<<s[1], s[2]>>])),
                       RMul(g.val[<<s[3], s[2]>>], g.val[<<s[4], s[1]>>])),
                  RMul(g.val[<<s[3], s[1]>>], g.val[<<s[4], s[2]>>])))])

MaxMass == 1    \* the masses M of the Schwarzschild metrics, 1..MaxMass

\* the sample points of the Schwarzschild metrics: mass M, radius r outside
\* the horizon, and the sine and cosine of theta (pi/2, and the angle of
\* the 3-4-5 triangle)
SchwarzschildPoints ==
    [n \in 1..(4 * MaxMass) |->
        LET M == ((n - 1) \div 4) + 1
        IN  [M |-> M,
             r |-> 2 * M + 1 + (((n - 1) \div 2) % 2),
             sin |-> IF n % 2 = 1 THEN Num(1) ELSE Rat(3, 5),
             cos |-> IF n % 2 = 1 THEN Num(0) ELSE Rat(4, 5)]]

\* f = 1 - 2M/r and its derivatives in r
Schw_f(p) == RSub(Num(1), Rat(2 * p.M, p.r))
Schw_df(p) == Rat(2 * p.M, p.r * p.r)
Schw_ddf(p) == Rat(-4 * p.M, p.r * p.r * p.r)

\* the Schwarzschild metric in (t, r, theta, phi):
\* diag(-f, 1/f, r**2, r**2 sin(theta)**2)
Schwarzschild(p) ==
    Array(Cube(2, 4), [s \in Indices(Cube(2, 4)) |->
        IF s[1] # s[2] THEN Num(0)
        ELSE IF s[1] = 0 THEN RNeg(Schw_f(p))
        ELSE IF s[1] = 1 THEN RDiv(Num(1), Schw_f(p))
        ELSE IF s[1] = 2 THEN Num(p.r * p.r)
        ELSE RMul(Num(p.r * p.r), RMul(p.sin, p.sin))])

\* its first partial derivatives, in r (axis 1) and theta (axis 2)
SchwarzschildD1(p) ==
    Array(Cube(3, 4), [s \in Indices(Cube(3, 4)) |->
        IF s[2] # s[3] THEN Num(0)
        ELSE IF s[1] = 1 THEN
            (IF s[2] = 0 THEN RNeg(Schw_df(p))
             ELSE IF s[2] = 1 THEN RNeg(RDiv(Schw_df(p), RMul(Schw_f(p), Schw_f(p))))
             ELSE IF s[2] = 2 THEN Num(2 * p.r)
             ELSE RMul(Num(2 * p.r), RMul(p.sin, p.sin)))
        ELSE IF s[1] = 2 /\ s[2] = 3 THEN RMul(Num(2 * p.r * p.r), RMul(p.sin, p.cos))
        ELSE Num(0)])

\* its second partial derivatives
SchwarzschildD2(p) ==
    Array(Cube(4, 4), [s \in Indices(Cube(4, 4)) |->
        IF s[3] # s[4] THEN Num(0)
        ELSE IF s[1] = 1 /\ s[2] = 1 THEN
            (IF s[3] = 0 THEN RNeg(Schw_ddf(p))
             ELSE IF s[3] = 1 THEN
                 RAdd(RNeg(RDiv(Schw_ddf(p), RMul(Schw_f(p), Schw_f(p)))),
                      RDiv(RMul(Num(2), RMul(Schw_df(p), Schw_df(p))),
                           RMul(Schw_f(p), RMul(Schw_f(p), Schw_f(p)))))
             ELSE IF s[3] = 2 THEN Num(2)
             ELSE RMul(Num(2), RMul(p.sin, p.sin)))
        ELSE IF s[3] = 3 /\ s[1] + s[2] = 3 /\ s[1] \in {1, 2} THEN
            RMul(Num(4 * p.r), RMul(p.sin, p.cos))
        ELSE IF s[3] = 3 /\ s[1] = 2 /\ s[2] = 2 THEN
            RMul(Num(2 * p.r * p.r), RSub(RMul(p.cos, p.cos), RMul(p.sin, p.sin)))
        ELSE Num(0)])

SchwarzschildSyms == <<"t", "r", "theta", "phi">>

MetricIds == 1..Len(MetricArrays)
SchwarzschildIds == (Len(MetricArrays) + 1)..(Len(MetricArrays) + Len(SchwarzschildPoints))

MetricTable ==
    [m \in MetricIds \cup SchwarzschildIds |->
        IF m \in MetricIds THEN
            [cls |-> "MetricTensor",
             id |-> m,
             arr |-> MetricArrays[m],
             d1 |-> NormalD1(MetricArrays[m]),
             d2 |-> NormalD2(MetricArrays[m], Curvature[m]),
             inv |-> MatInv(MetricArrays[m]),
             syms |-> SubSeq(AllSyms, 1, MetricArrays[m].shape[1]),
             config |-> ll,
             dims |-> MetricArrays[m].shape[1]]
        ELSE
            Bind(SchwarzschildPoints[m - Len(MetricArrays)], LAMBDA p :
            [cls |-> "MetricTensor",
             id |-> m,
             arr |-> Schwarzschild(p),
             d1 |-> SchwarzschildD1(p),
             d2 |-> SchwarzschildD2(p),
             inv |-> MatInv(Schwarzschild(p)),
             syms |-> SchwarzschildSyms,
             config |-> ll,
             dims |-> 4])] @@ <<>>
None == 0

MetricTensor(m) == MetricTable[m]

\* MetricTensor.lower_config().tensor() and its inverse
lower_config(m) == MetricTensor(m).arr
upper_config(m) == MetricTensor(m).inv

----------------------------------------------------------------------------
(* Tensors: tensors/tensor.py and helpers.py, which the constructors       *)
(* below call.                                                             *)

\* BaseRelativityTensor.__init__: config must have one letter per axis
BaseRelativityTensor(cls, arr, syms, config, parent_metric, name) ==
    IF Len(config) # Len(arr.shape) THEN Throw("ValueError")
    ELSE Return([cls |-> cls, arr |-> arr, syms |-> syms, config |-> config,
                 parent_metric |-> parent_metric, name |-> name])

\* helpers._change_name: the name followed by the context
_change_name(name, context) == name \o context

\* one index raised (with the inverse metric) or lowered (with the metric):
\* the metric array M contracted with axis p (1-based) of A, in place
MoveIndex(A, M, p) ==
    Array(A.shape, [s \in Indices(A.shape) |->
        RSum([b \in 0..(A.shape[p] - 1) |->
                 RMul(M.val[<<s[p], b>>], A.val[[j \in 1..Len(s) |-> IF j = p THEN b ELSE s[j]]])],
             A.shape[p])])

RECURSIVE ChainConfigChange(_, _, _, _, _)
\* the axes from p on converted one by one
ChainConfigChange(A, config, metric, newconfig, p) ==
    IF p > Len(config) THEN A
    ELSE IF config[p] = newconfig[p] THEN ChainConfigChange(A, config, metric, newconfig, p + 1)
    ELSE Bind(MoveIndex(A, IF newconfig[p] = "l" THEN lower_config(metric)
                                                 ELSE upper_config(metric), p),
              LAMBDA moved : ChainConfigChange(moved, config, metric, newconfig, p + 1))

\* tensor._change_config: the array of the tensor in the new configuration
_change_config(tensor, metric, newconfig) ==
    IF Len(newconfig) # Len(tensor.config) THEN Throw("ValueError")
    ELSE Return(ChainConfigChange(tensor.arr, tensor.config, metric, newconfig, 1))

Transposed(M) == Array(M.shape, [s \in Indices(M.shape) |-> M.val[<<s[2], s[1]>>]])

RECURSIVE TransformAxes(_, _, _, _, _)
\* the axes from p on contracted one by one with the matrix (a lower
\* index) or its inverse transpose (an upper index)
TransformAxes(A, config, matrix, inverse_transpose, p) ==
    IF p > Len(config) THEN A
    ELSE Bind(MoveIndex(A, IF config[p] = "l" THEN matrix ELSE inverse_transpose, p),
              LAMBDA moved : TransformAxes(moved, config, matrix, inverse_transpose, p + 1))

\* BaseRelativityTensor.lorentz_transform(...).tensor(): the transformed array
lorentz_transform(self_, transformation_matrix) ==
    TransformAxes(self_.arr, self_.config, transformation_matrix,
                  Transposed(MatInv(transformation_matrix)), 1)

\* the exceptions the constructors raise
MissingMetric == "Exception: Parent Metric not found, can't do configuration change"
ConfigLength == "ValueError: config should be of length 4"
WeylDimension == "ValueError: Dimension of the space/space-time should be 3 or more"
DualDimension == "ValueError: Dimension of the space/space-time should be 4"
LeviCivitaDimension ==
    "TypeError: currently the Levi Civita Symbols are only supported for a 4-Dimensional coordinate basis"
NoneHasNoDims == "AttributeError: 'NoneType' object has no attribute 'dims'"
NotAMetric == "AttributeError: object has no attribute 'lower_config'"

\* a derived tensor class of order 4: the base initializer, then the
\* check of the length of config
\* the class constructor without its check of the config length
Order4Tensor_unchecked(cls, arr, syms, config, parent_metric, name) ==
    BaseRelativityTensor(cls, arr, syms, config, parent_metric, name)

Order4Tensor(cls, arr, syms, config, parent_metric, name) ==
    Bind(BaseRelativityTensor(cls, arr, syms, config, parent_metric, name), LAMBDA base :
        IF base.exc # "none" THEN base
        ELSE IF ~(Len(config) = 4) THEN Throw(ConfigLength)
        ELSE base)

\* the parent metric preferred to the metric given
ChangeConfig_parent_first(self_, newconfig, metric_) ==
    LET metric == IF self_.parent_metric = None THEN metric_ ELSE self_.parent_metric
    IN  IF metric = None THEN Throw(MissingMetric)
        ELSE Bind(_change_config(self_, metric, newconfig), LAMBDA new_tensor :
                 IF new_tensor.exc # "none" THEN Throw(new_tensor.exc)
                 ELSE Order4Tensor(self_.cls, new_tensor.val, self_.syms, newconfig, metric,
                                   _change_name(self_.name, <<"__">> \o newconfig)))

\* the new tensor attached to the parent metric of self instead of the
\* metric converted with
ChangeConfig_keeps_parent(self_, newconfig, metric_) ==
    LET metric == IF metric_ = None THEN self_.parent_metric ELSE metric_
    IN  IF metric = None THEN Throw(MissingMetric)
        ELSE Bind(_change_config(self_, metric, newconfig), LAMBDA new_tensor :
                 IF new_tensor.exc # "none" THEN Throw(new_tensor.exc)
                 ELSE Order4Tensor(self_.cls, new_tensor.val, self_.syms, newconfig,
                                   self_.parent_metric,
                                   _change_name(self_.name, <<"__">> \o newconfig)))

\* the new tensor tagged with the config of self instead of newconfig
ChangeConfig_keeps_config(self_, newconfig, metric_) ==
    LET metric == IF metric_ = None THEN self_.parent_metric ELSE metric_
    IN  IF metric = None THEN Throw(MissingMetric)
        ELSE Bind(_change_config(self_, metric, newconfig), LAMBDA new_tensor :
                 IF new_tensor.exc # "none" THEN Throw(new_tensor.exc)
                 ELSE Order4Tensor(self_.cls, new_tensor.val, self_.syms, self_.config, metric,
                                   _change_name(self_.name, <<"__">> \o newconfig)))

\* the new tensor built without a parent metric
ChangeConfig_drops_metric(self_, newconfig, metric_) ==
    LET metric == IF metric_ = None THEN self_.parent_metric ELSE metric_
    IN  IF metric = None THEN Throw(MissingMetric)
        ELSE Bind(_change_config(self_, metric, newconfig), LAMBDA new_tensor :
                 IF new_tensor.exc # "none" THEN Throw(new_tensor.exc)
                 ELSE Order4Tensor(self_.cls, new_tensor.val, self_.syms, newconfig, None,
                                   _change_name(self_.name, <<"__">> \o newconfig)))

\* the body the change_config methods share: resolve the metric, convert
\* the array, build a tensor of the caller's class
ChangeConfig(self_, newconfig, metric_) ==
    LET metric == IF metric_ = None THEN self_.parent_metric ELSE metric_
    IN  IF metric = None THEN Throw(MissingMetric)
        ELSE Bind(_change_config(self_, metric, newconfig), LAMBDA new_tensor :
                 IF new_tensor.exc # "none" THEN Throw(new_tensor.exc)
                 ELSE Order4Tensor(self_.cls, new_tensor.val, self_.syms, newconfig, metric,
                                   _change_name(self_.name, <<"__">> \o newconfig)))

WeylTensor(arr, syms, config, parent_metric, name) ==
    Order4Tensor("WeylTensor", arr, syms, config, parent_metric, name)

WeylTensor_change_config(self_, newconfig, metric_) == ChangeConfig(self_, newconfig, metric_)

\* the transformed tensor left attached to the metric of self
WeylTensor_lorentz_transform_keeps_metric(self_, transformation_matrix) ==
    Bind(lorentz_transform(self_, transformation_matrix), LAMBDA t :
        WeylTensor(t, self_.syms, self_.config, self_.parent_metric,
                   _change_name(self_.name, <<"__lt">>)))

\* WeylTensor.lorentz_transform
WeylTensor_lorentz_transform(self_, transformation_matrix) ==
    Bind(lorentz_transform(self_, transformation_matrix), LAMBDA t :
        WeylTensor(t, self_.syms, self_.config, None, _change_name(self_.name, <<"__lt">>)))

DualWeylTensor(arr, syms, config, parent_metric, name) ==
    Order4Tensor("DualWeylTensor", arr, syms, config, parent_metric, name)

DualWeylTensor_change_config(self_, newconfig, metric_) == ChangeConfig(self_, newconfig, metric_)

\* DualWeylTensor.lorentz_transform
DualWeylTensor_lorentz_transform(self_, transformation_matrix) ==
    Bind(lorentz_transform(self_, transformation_matrix), LAMBDA t :
        DualWeylTensor(t, self_.syms, self_.config, None, _change_name(self_.name, <<"__lt">>)))

LeviCivitaSymbols(arr, syms, config, name, parent_metric) ==
    Order4Tensor("LeviCivitaSymbols", arr, syms, config, parent_metric, name)

LeviCivitaSymbols_change_config(self_, newconfig, metric_) == ChangeConfig(self_, newconfig, metric_)

\* tensors/riemann.py and tensors/ricci.py
RiemannCurvatureTensor(arr, syms, config, parent_metric, name) ==
    Order4Tensor("RiemannCurvatureTensor", arr, syms, config, parent_metric, name)

RiemannCurvatureTensor_change_config(self_, newconfig, metric_) ==
    ChangeConfig(self_, newconfig, metric_)

RicciTensor(arr, syms, config, parent_metric, name) ==
    Bind(BaseRelativityTensor("RicciTensor", arr, syms, config, parent_metric, name), LAMBDA base :
        IF base.exc # "none" THEN base
        ELSE IF ~(Len(config) = 2) THEN Throw("ValueError: config should be of length 2")
        ELSE base)

RicciTensor_change_config(self_, newconfig, metric_) ==
    LET metric == IF metric_ = None THEN self_.parent_metric ELSE metric_
    IN  IF metric = None THEN Throw(MissingMetric)
        ELSE Bind(_change_config(self_, metric, newconfig), LAMBDA new_tensor :
                 IF new_tensor.exc # "none" THEN Throw(new_tensor.exc)
                 ELSE RicciTensor(new_tensor.val, self_.syms, newconfig, metric,
                                  _change_name(self_.name, <<"__">> \o newconfig)))

\* RicciTensor.from_riemann: the Riemann tensor in config ulll contracted
\* over its upper index and its second lower index
RicciTensor_from_riemann(riemann_, parent_metric_) ==
    Bind(IF ~(riemann_.config = ulll)
         THEN RiemannCurvatureTensor_change_config(riemann_, ulll, parent_metric_)
         ELSE Return(riemann_), LAMBDA riemann :
        IF riemann.exc # "none" THEN riemann
        ELSE LET parent_metric == IF parent_metric_ = None THEN riemann.val.parent_metric
                                  ELSE parent_metric_
             IN  Bind(tensorcontraction(riemann.val.arr, 0, 2), LAMBDA c :
                     RicciTensor(Array(c.shape, c.val), riemann.val.syms, ll, parent_metric,
                                 <<"RicciTensor">>)))

\* scalars/scalar.py: BaseRelativityScalar
BaseRelativityScalar(cls, expr, syms, parent_metric) ==
    Return([cls |-> cls, expr |-> expr, syms |-> syms, parent_metric |-> parent_metric,
            name |-> <<"GenericScalar">>])

\* the trace of the array in the config it comes in, not converted to 'ul'
RicciScalar_from_riccitensor_as_given(riccitensor_, parent_metric_) ==
    BaseRelativityScalar("RicciScalar", Expr(tensorcontraction(riccitensor_.arr, 0, 1)),
                         riccitensor_.syms,
                         IF parent_metric_ = None THEN riccitensor_.parent_metric
                         ELSE parent_metric_)

\* RicciScalar.from_riccitensor
RicciScalar_from_riccitensor(riccitensor_, parent_metric_) ==
    Bind(IF ~(riccitensor_.config = ul)
         THEN RicciTensor_change_config(riccitensor_, ul, parent_metric_)
         ELSE Return(riccitensor_), LAMBDA riccitensor :
        IF riccitensor.exc # "none" THEN riccitensor
        ELSE LET parent_metric == IF parent_metric_ = None THEN riccitensor.val.parent_metric
                                  ELSE parent_metric_
             IN  BaseRelativityScalar("RicciScalar",
                                      Expr(tensorcontraction(riccitensor.val.arr, 0, 1)),
                                      riccitensor.val.syms, parent_metric))

----------------------------------------------------------------------------
\* SecondRicciInvariant.from_riccitensor
SecondRicciInvariant_from_riccitensor(riccitensor, parent_metric_) ==
    Bind(IF ~(riccitensor.config = ll)
         THEN RicciTensor_change_config(riccitensor, ll, parent_metric_)
         ELSE Return(riccitensor), LAMBDA ricci_cov :
    IF ricci_cov.exc # "none" THEN ricci_cov ELSE
    Bind(IF ~(riccitensor.config = uu)
         THEN RicciTensor_change_config(riccitensor, uu, parent_metric_)
         ELSE Return(riccitensor), LAMBDA ricci_con :
    IF ricci_con.exc # "none" THEN ricci_con ELSE
    LET parent_metric == IF parent_metric_ = None THEN riccitensor.parent_metric
                         ELSE parent_metric_
    IN  BaseRelativityScalar("SecondRicciInvariant",
                             Expr(second_ricci(ricci_cov.val.arr, ricci_con.val.arr)),
                             riccitensor.syms, parent_metric)))

\* ThirdRicciInvariant.from_riccitensor
ThirdRicciInvariant_from_riccitensor(riccitensor, parent_metric_) ==
    Bind(IF ~(riccitensor.config = lu)
         THEN RicciTensor_change_config(riccitensor, lu, parent_metric_)
         ELSE Return(riccitensor), LAMBDA ricci_mix :
    IF ricci_mix.exc # "none" THEN ricci_mix ELSE
    LET parent_metric == IF parent_metric_ = None THEN riccitensor.parent_metric
                         ELSE parent_metric_
    IN  BaseRelativityScalar("ThirdRicciInvariant", Expr(third_ricci(ricci_mix.val.arr)),
                             riccitensor.syms, parent_metric))

----------------------------------------------------------------------------

(* tensors/weyl.py and tensors/levicivita.py                                *)

Zeros(n, d) == Array(Cube(n, d), [s \in Indices(Cube(n, d)) |-> Num(0)])

\* a slip in the third divisor: l repeats k
weyl_index_overlapping(t, dims) ==
    << t % dims,
       (t \div dims) % dims,
       (t \div dims) % dims,
       (t \div (dims ^ 3)) % dims >>

\* the loop counter t decomposed into the index tuple (i, k, l, m)
weyl_index(t, dims) ==
    << t % dims,
       (t \div dims) % dims,
       (t \div (dims ^ 2)) % dims,
       (t \div (dims ^ 3)) % dims >>

\* a sign slip in the second Ricci term: + R[i,l] g[k,m]
weyl_component_sign_slip(riemann, t_ricci, g, r_scalar, dims, i, k, l, m) ==
    RAdd(riemann.val[<<i, k, l, m>>],
         RAdd(RDiv(RSub(RAdd(RAdd(RMul(t_ricci.val[<<i, m>>], g.val[<<k, l>>]),
                                  RMul(t_ricci.val[<<i, l>>], g.val[<<k, m>>])),
                             RMul(t_ricci.val[<<k, l>>], g.val[<<i, m>>])),
                        RMul(t_ricci.val[<<k, m>>], g.val[<<i, l>>])),
                   Num(dims - 2)),
              RDiv(RMul(r_scalar,
                        RSub(RMul(g.val[<<i, l>>], g.val[<<k, m>>]),
                             RMul(g.val[<<i, m>>], g.val[<<k, l>>]))),
                   Num((dims - 1) * (dims - 2)))))

\* the right-hand side of the assignment to C[i][k][l][m]
weyl_component(riemann, t_ricci, g, r_scalar, dims, i, k, l, m) ==
    RAdd(riemann.val[<<i, k, l, m>>],
         RAdd(RDiv(RSub(RAdd(RSub(RMul(t_ricci.val[<<i, m>>], g.val[<<k, l>>]),
                                  RMul(t_ricci.val[<<i, l>>], g.val[<<k, m>>])),
                             RMul(t_ricci.val[<<k, l>>], g.val[<<i, m>>])),
                        RMul(t_ricci.val[<<k, m>>], g.val[<<i, l>>])),
                   Num(dims - 2)),
              RDiv(RMul(r_scalar,
                        RSub(RMul(g.val[<<i, l>>], g.val[<<k, m>>]),
                             RMul(g.val[<<i, m>>], g.val[<<k, l>>]))),
                   Num((dims - 1) * (dims - 2)))))

\* C = zeros; for t in range(dims ** 4): C[i][k][l][m] = ...
\* The value assigned depends on (i, k, l, m) alone, so after the loop a
\* component holds it if some t decomposes into its index, and 0 if none does.
weyl_loop(riemann, t_ricci, g, r_scalar, dims) ==
    LET assigned == {weyl_index(t, dims) : t \in 0..(dims ^ 4 - 1)}
    IN  [s \in Indices(Cube(4, dims)) |->
            IF s \in assigned
            THEN weyl_component(riemann, t_ricci, g, r_scalar, dims, s[1], s[2], s[3], s[4])
            ELSE Num(0)]

\* the formula applied from dimension 3 on
weyl_case_formula_from_3(dims) == IF dims >= 3 THEN "formula" ELSE "raise"

\* zeros returned for every dimension up to 3
weyl_case_zeros_up_to_3(dims) == IF dims > 3 THEN "formula" ELSE "zeros"

\* the branch from_riemann takes for a metric of dimension dims
weyl_case(dims) ==
    IF dims > 3 THEN "formula" ELSE IF dims = 3 THEN "zeros" ELSE "raise"

\* WeylTensor.from_riemann
WeylTensor_from_riemann(riemann_, parent_metric) ==
    LET metric == IF parent_metric = None THEN riemann_.parent_metric ELSE parent_metric
    IN  IF metric = None THEN Throw(NoneHasNoDims)
        ELSE IF weyl_case(MetricTensor(metric).dims) = "formula" THEN
            Bind(RicciTensor_from_riemann(riemann_, None), LAMBDA t_ricci :
            IF t_ricci.exc # "none" THEN t_ricci ELSE
            Bind(IF ~(riemann_.config = llll)
                 THEN RiemannCurvatureTensor_change_config(riemann_, llll, None)
                 ELSE Return(riemann_), LAMBDA riemann :
            IF riemann.exc # "none" THEN riemann ELSE
            Bind(RicciScalar_from_riccitensor(t_ricci.val, None), LAMBDA r_scalar :
            IF r_scalar.exc # "none" THEN r_scalar ELSE
            LET dims == MetricTensor(metric).dims
            IN  WeylTensor(Array(Cube(4, dims),
                                 weyl_loop(riemann.val.arr, t_ricci.val.arr, lower_config(metric),
                                           r_scalar.val.expr, dims)),
                           riemann.val.syms, llll, metric, <<"WeylTensor">>))))
        ELSE IF weyl_case(MetricTensor(metric).dims) = "zeros" THEN
            WeylTensor(Zeros(4, 3), riemann_.syms, llll, riemann_.parent_metric,
                       <<"WeylTensor">>)
        ELSE Throw(WeylDimension)

\* the conversion to 'llll' written into the tensor the caller passed
WeylTensor_from_riemann_arg_converted(riemann_, parent_metric) ==
    LET metric == IF parent_metric = None THEN riemann_.parent_metric ELSE parent_metric
    IN  IF metric = None \/ riemann_.config = llll THEN riemann_
        ELSE IF MetricTensor(metric).dims <= 3 THEN riemann_
        ELSE Bind(RiemannCurvatureTensor_change_config(riemann_, llll, None), LAMBDA riemann :
                 IF riemann.exc # "none" THEN riemann_ ELSE riemann.val)

\* the tensor the caller passed to WeylTensor.from_riemann, after the call:
\* the assignment to riemann binds the local name to the new tensor that
\* change_config returned, and nothing else writes to the object passed
WeylTensor_from_riemann_arg(riemann_, parent_metric) == riemann_

\* helpers.perm_parity: +1 for an even permutation, -1 for an odd one,
\* 0 when an index repeats
perm_parity(indx) ==
    IF \E a, b \in 1..Len(indx) : a < b /\ indx[a] = indx[b] THEN 0
    ELSE IF Cardinality({p \in (1..Len(indx)) \X (1..Len(indx)) :
                            p[1] < p[2] /\ indx[p[1]] > indx[p[2]]}) % 2 = 0
         THEN 1 ELSE -1

\* numpy.unravel_index(i, shape = [4] * 4): row-major, the last axis fastest
unravel_index4(i) == << i \div 64, (i \div 16) % 4, (i \div 4) % 4, i % 4 >>

\* sympy.Array(flat, [4] * 4): the flat list read row-major
Reshape4(flat) ==
    Array(Cube(4, 4), [s \in Indices(Cube(4, 4)) |->
                          flat[((s[1] * 4 + s[2]) * 4 + s[3]) * 4 + s[4] + 1]])

\* sympy.sqrt of a rational that is a perfect square
RSqrt(q) ==
    << CHOOSE r \in 0..q[1] : r * r = q[1], CHOOSE r \in 1..q[2] : r * r = q[2] >>

\* the parity alone, the factor sqrt(|det g|) left out
levi_civita_entry_unscaled(i, mat_det) == Num(perm_parity(unravel_index4(i)))

\* the entry appended to tmplist for the flat index i
levi_civita_entry(i, mat_det) == RMul(mat_det, Num(perm_parity(unravel_index4(i))))

\* LeviCivitaSymbols.from_metric
LeviCivitaSymbols_from_metric(metric) ==
    IF MetricTensor(metric).dims # 4 THEN Throw(LeviCivitaDimension)
    ELSE Bind(RSqrt(RAbs(MatDet(lower_config(metric)))), LAMBDA mat_det :
             LeviCivitaSymbols(Reshape4([i \in 1..256 |-> levi_civita_entry(i - 1, mat_det)]),
                               MetricTensor(metric).syms, llll, <<"LeviCivitaSymbols">>, metric))

\* 0.5 * array
Half(A) == [shape |-> A.shape, val |-> [s \in Indices(A.shape) |-> RMul(<<1, 2>>, A.val[s])]]

\* a slip in the first pair: the third Levi-Civita axis summed against the
\* second Weyl axis, the fourth against the first
weyl_dual_contraction_crossed(levi_c, weyl) ==
    ContractSeq(tensorproduct(Half(levi_c), weyl), <<<<2, 5>>, <<2, 3>>>>)

\* the product of 0.5 * Levi-Civita with the Weyl array, contracted
weyl_dual_contraction(levi_c, weyl) ==
    ContractSeq(tensorproduct(Half(levi_c), weyl), <<<<2, 4>>, <<2, 3>>>>)

\* DualWeylTensor.from_weyltensor
DualWeylTensor_from_weyltensor(weyl_, parent_metric) ==
    LET metric == IF parent_metric = None THEN weyl_.parent_metric ELSE parent_metric
    IN  IF metric = None THEN Throw(NoneHasNoDims)
        ELSE IF MetricTensor(metric).dims = 4 THEN
            Bind(LeviCivitaSymbols_from_metric(metric), LAMBDA levi_c :
            IF levi_c.exc # "none" THEN levi_c ELSE
            Bind(IF ~(weyl_.config = uull)
                 THEN WeylTensor_change_config(weyl_, uull, None)
                 ELSE Return(weyl_), LAMBDA weyl :
            IF weyl.exc # "none" THEN weyl ELSE
            Bind(weyl_dual_contraction(levi_c.val.arr, weyl.val.arr), LAMBDA weyl_dual :
            DualWeylTensor(Array(weyl_dual.shape, weyl_dual.val), weyl.val.syms, llll, metric,
                           <<"DualWeylTensor">>))))
        ELSE Throw(DualDimension)

\* the tensor the caller passed to DualWeylTensor.from_weyltensor, after the
\* call: the assignment to weyl binds the local name to the new tensor that
\* change_config returned, and nothing else writes to the object passed
DualWeylTensor_from_weyltensor_arg(weyl_, parent_metric) == weyl_

\* S[l, i, j] = d_i g_jl + d_j g_il - d_l g_ij
christoffel_bracket(metric) ==
    Array(metric.d1.shape, [s \in Indices(metric.d1.shape) |->
        RSub(RAdd(metric.d1.val[<<s[2], s[3], s[1]>>], metric.d1.val[<<s[3], s[2], s[1]>>]),
             metric.d1.val[<<s[1], s[2], s[3]>>])])

\* d_m S[l, i, j], indexed [m, l, i, j]
christoffel_bracket_d1(d2) ==
    Array(d2.shape, [s \in Indices(d2.shape) |->
        RSub(RAdd(d2.val[<<s[1], s[3], s[4], s[2]>>], d2.val[<<s[1], s[4], s[3], s[2]>>]),
             d2.val[<<s[1], s[2], s[3], s[4]>>])])

\* the derivative of the inverse metric: d_m g^kl = - g^ka (d_m g_ab) g^bl
inverse_d1(inv, d1) ==
    Array(d1.shape, [s \in Indices(d1.shape) |->
        RNeg(RSum([a \in 0..(inv.shape[1] - 1) |->
                 RSum([b \in 0..(inv.shape[1] - 1) |->
                          RMul(inv.val[<<s[2], a>>],
                               RMul(d1.val[<<s[1], a, b>>], inv.val[<<b, s[3]>>]))],
                      inv.shape[1])],
             inv.shape[1]))])

\* ChristoffelSymbols.from_metric:
\* Gamma^k_ij = 1/2 g^kl (d_i g_jl + d_j g_il - d_l g_ij), config 'ull',
\* with d1[m, k, i, j] = d_m Gamma^k_ij
ChristoffelSymbols_from_metric(metric) ==
    IF metric.cls # "MetricTensor" THEN Throw(NotAMetric)
    ELSE
    Bind(christoffel_bracket(metric), LAMBDA S :
    Bind(christoffel_bracket_d1(metric.d2), LAMBDA dS :
    Bind(inverse_d1(metric.inv, metric.d1), LAMBDA dinv :
    Return([cls |-> "ChristoffelSymbols",
            arr |-> Array(Cube(3, metric.dims), [s \in Indices(Cube(3, metric.dims)) |->
                        RMul(<<1, 2>>,
                             RSum([l \in 0..(metric.dims - 1) |->
                                      RMul(metric.inv.val[<<s[1], l>>], S.val[<<l, s[2], s[3]>>])],
                                  metric.dims))]),
            d1 |-> Array(Cube(4, metric.dims), [s \in Indices(Cube(4, metric.dims)) |->
                        RMul(<<1, 2>>,
                             RSum([l \in 0..(metric.dims - 1) |->
                                      RAdd(RMul(dinv.val[<<s[1], s[2], l>>],
                                                S.val[<<l, s[3], s[4]>>]),
                                           RMul(metric.inv.val[<<s[2], l>>],
                                                dS.val[<<s[1], l, s[3], s[4]>>]))],
                                  metric.dims))]),
            syms |-> metric.syms,
            config |-> <<"u", "l", "l">>,
            parent_metric |-> metric.id,
            name |-> <<"ChristoffelSymbols">>]))))

\* RiemannCurvatureTensor.from_christoffels, the symbols in config 'ull':
\* R^l_ijk = d_j Gamma^l_ik - d_k Gamma^l_ij
\*           + Gamma^l_jm Gamma^m_ik - Gamma^l_km Gamma^m_ij, config 'ulll'
RiemannCurvatureTensor_from_christoffels(chris, parent_metric_) ==
    LET dims == Len(chris.syms)
        parent_metric == IF parent_metric_ = None THEN chris.parent_metric ELSE parent_metric_
    IN  RiemannCurvatureTensor(
            Array(Cube(4, dims), [s \in Indices(Cube(4, dims)) |->
                RAdd(RSub(chris.d1.val[<<s[3], s[1], s[2], s[4]>>],
                          chris.d1.val[<<s[4], s[1], s[2], s[3]>>]),
                     RSum([m \in 0..(dims - 1) |->
                              RSub(RMul(chris.arr.val[<<s[1], s[3], m>>],
                                        chris.arr.val[<<m, s[2], s[4]>>]),
                                   RMul(chris.arr.val[<<s[1], s[4], m>>],
                                        chris.arr.val[<<m, s[2], s[3]>>]))],
                          dims))]),
            chris.syms, ulll, parent_metric, <<"RiemannCurvatureTensor">>)

\* RiemannCurvatureTensor.from_metric
RiemannCurvatureTensor_from_metric(metric) ==
    Bind(ChristoffelSymbols_from_metric(metric), LAMBDA ch :
        IF ch.exc # "none" THEN ch
        ELSE RiemannCurvatureTensor_from_christoffels(ch.val, None))

\* RicciScalar.from_riemann
RicciScalar_from_riemann(riemann, parent_metric) ==
    Bind(RicciTensor_from_riemann(riemann, parent_metric), LAMBDA cg :
        IF cg.exc # "none" THEN cg
        ELSE RicciScalar_from_riccitensor(cg.val, None))

\* RicciScalar.from_christoffels
RicciScalar_from_christoffels(chris, parent_metric) ==
    Bind(RiemannCurvatureTensor_from_christoffels(chris, parent_metric), LAMBDA rt :
        IF rt.exc # "none" THEN rt
        ELSE RicciScalar_from_riemann(rt.val, None))

\* the metric itself contracted, in place of the Ricci tensor derived from it
RicciScalar_from_metric_traces_metric(metric) ==
    RicciScalar_from_riccitensor([cls |-> "RicciTensor", arr |-> metric.arr, syms |-> metric.syms,
                                  config |-> ll, parent_metric |-> metric.id,
                                  name |-> <<"RicciTensor">>], None)

\* RicciScalar.from_metric
RicciScalar_from_metric(metric) ==
    Bind(ChristoffelSymbols_from_metric(metric), LAMBDA ch :
        IF ch.exc # "none" THEN ch
        ELSE RicciScalar_from_christoffels(ch.val, None))

\* the Kretschmann scalar taken as the Riemann tensor 'llll' contracted
\* with itself, the indices of the second factor not raised
KretschmannScalar_from_riemann_cov_only(riemann, parent_metric_) ==
    Bind(IF ~(riemann.config = llll)
         THEN RiemannCurvatureTensor_change_config(riemann, llll, parent_metric_)
         ELSE Return(riemann), LAMBDA riemann_cov :
    IF riemann_cov.exc # "none" THEN riemann_cov ELSE
    LET parent_metric == IF parent_metric_ = None THEN riemann.parent_metric
                         ELSE parent_metric_
    IN  BaseRelativityScalar("KretschmannScalar",
                             Expr(kretschmann_scalar(riemann_cov.val.arr, riemann_cov.val.arr)),
                             riemann.syms, parent_metric))

\* KretschmannScalar.from_riemann
KretschmannScalar_from_riemann(riemann, parent_metric_) ==
    Bind(IF ~(riemann.config = llll)
         THEN RiemannCurvatureTensor_change_config(riemann, llll, parent_metric_)
         ELSE Return(riemann), LAMBDA riemann_cov :
    IF riemann_cov.exc # "none" THEN riemann_cov ELSE
    Bind(IF ~(riemann.config = uuuu)
         THEN RiemannCurvatureTensor_change_config(riemann, uuuu, parent_metric_)
         ELSE Return(riemann), LAMBDA riemann_con :
    IF riemann_con.exc # "none" THEN riemann_con ELSE
    LET parent_metric == IF parent_metric_ = None THEN riemann.parent_metric
                         ELSE parent_metric_
    IN  BaseRelativityScalar("KretschmannScalar",
                             Expr(kretschmann_scalar(riemann_cov.val.arr, riemann_con.val.arr)),
                             riemann.syms, parent_metric)))

\* KretschmannScalar.from_christoffels
KretschmannScalar_from_christoffels(chris, parent_metric) ==
    Bind(RiemannCurvatureTensor_from_christoffels(chris, parent_metric), LAMBDA rt :
        IF rt.exc # "none" THEN rt
        ELSE KretschmannScalar_from_riemann(rt.val, None))

\* KretschmannScalar.from_metric
KretschmannScalar_from_metric(metric) ==
    Bind(ChristoffelSymbols_from_metric(metric), LAMBDA ch :
        IF ch.exc # "none" THEN ch
        ELSE KretschmannScalar_from_christoffels(ch.val, None))

\* WeylTensor.from_metric
WeylTensor_from_metric(metric) ==
    Bind(RiemannCurvatureTensor_from_metric(metric), LAMBDA riemann :
        IF riemann.exc # "none" THEN riemann
        ELSE WeylTensor_from_riemann(riemann.val, None))

\* DualWeylTensor.from_riemann: the Riemann tensor is handed to
\* WeylTensor.from_metric
DualWeylTensor_from_riemann(riemann, parent_metric) ==
    Bind(WeylTensor_from_metric(riemann), LAMBDA weyl :
        IF weyl.exc # "none" THEN weyl
        ELSE DualWeylTensor_from_weyltensor(weyl.val, parent_metric))

\* DualWeylTensor.from_metric
DualWeylTensor_from_metric(metric) ==
    Bind(RiemannCurvatureTensor_from_metric(metric), LAMBDA riemann :
        IF riemann.exc # "none" THEN riemann
        ELSE DualWeylTensor_from_riemann(riemann.val, None))

----------------------------------------------------------------------------
(* Spec: a caller holds an object (self), calls one of the constructors or *)
(* methods on it, and may go on to use the object returned.                *)

NSeeds == 1     \* the arrays a caller builds a tensor from, per metric
MaxChain == 1   \* the returned objects a caller goes on to use

\* an order-4 array with no symmetry: no two axes can be swapped unnoticed
SeedArray(k, d) ==
    Array(Cube(4, d), [s \in Indices(Cube(4, d)) |->
        Num(((s[1] + 2 * s[2] + 3 * s[3] + 5 * s[4] + k) % 7) - 3)])

\* an order-4 array with the index symmetries of a covariant Riemann
\* tensor and no other: antisymmetric in its first two and in its last two
\* axes, symmetric under the exchange of the two pairs
RiemannLikeArray(k, d) ==
    LET S == SeedArray(k, d).val
        A == [s \in Indices(Cube(4, d)) |->
                 S[s][1] - S[<<s[2], s[1], s[3], s[4]>>][1] - S[<<s[1], s[2], s[4], s[3]>>][1]
                      + S[<<s[2], s[1], s[4], s[3]>>][1]]
    IN  Array(Cube(4, d), [s \in Indices(Cube(4, d)) |->
            Num(A[s] + A[<<s[3], s[4], s[1], s[2]>>])])

\* the parent_metric a caller passes: the metric, or nothing
Attached(a, m) == IF a THEN m ELSE None

MetricRefs == {MetricTensor(m) : m \in MetricIds}

RiemannInputs ==
    {RiemannCurvatureTensor(SeedArray(k, MetricTensor(m).dims), MetricTensor(m).syms, c,
                            Attached(a, m), <<"RiemannCurvatureTensor">>).val :
        m \in MetricIds, k \in 1..NSeeds, c \in {ulll, llll}, a \in BOOLEAN}
    \cup
    {RiemannCurvatureTensor(RiemannLikeArray(k, MetricTensor(m).dims), MetricTensor(m).syms,
                            llll, m, <<"RiemannCurvatureTensor">>).val :
        m \in {n \in MetricIds : MetricTensor(n).dims > 3}, k \in 1..NSeeds}

WeylInputs ==
    {WeylTensor(SeedArray(k, MetricTensor(m).dims), MetricTensor(m).syms, c, Attached(a, m),
                <<"WeylTensor">>).val :
        m \in {n \in MetricIds : MetricTensor(n).dims \in {3, 4}},
        k \in 1..NSeeds, c \in {llll, uull}, a \in BOOLEAN}

DualInputs ==
    {DualWeylTensor(SeedArray(k, 4), MetricTensor(m).syms, llll, Attached(a, m),
                   <<"DualWeylTensor">>).val :
        m \in {n \in MetricIds : MetricTensor(n).dims = 4}, k \in 1..NSeeds, a \in BOOLEAN}

LeviCivitaInputs ==
    {LeviCivitaSymbols(SeedArray(k, 4), MetricTensor(m).syms, llll, <<"LeviCivitaSymbols">>,
                      Attached(a, m)).val :
        m \in {n \in MetricIds : MetricTensor(n).dims = 4}, k \in 1..NSeeds, a \in BOOLEAN}

\* the metrics of the dimension of the object, and None
MetricArgs(obj) == {None} \cup {m \in MetricIds : MetricTensor(m).dims = Len(obj.syms)}

TargetConfigs == {uull, <<"l", "l", "l", "u">>, <<"u", "l", "l">>}

\* the arrays a caller hands to a class constructor: of rank 4 and of rank 3
RawArrays ==
    {[cls |-> "Array", arr |-> SeedArray(k, 4), syms |-> SubSeq(AllSyms, 1, 4)] :
        k \in 1..NSeeds}
    \cup
    {[cls |-> "Array",
      arr |-> Array(Cube(3, 4), [s \in Indices(Cube(3, 4)) |-> SeedArray(k, 4).val[s \o <<0>>]]),
      syms |-> SubSeq(AllSyms, 1, 4)] : k \in 1..NSeeds}

\* the configs a caller constructs a tensor with
InitConfigs == {llll, <<"l", "l", "l">>, <<"u", "l", "l", "l", "l">>}

Init ==
    /\ self \in MetricRefs \cup RiemannInputs \cup WeylInputs \cup DualInputs \cup LeviCivitaInputs
                \cup RawArrays
    /\ op = "init"
    /\ arg_metric = None
    /\ arg_config = <<>>
    /\ ret = NoObject
    /\ exc = "none"
    /\ chain = 0
    /\ first = NoObject

\* the call op(self, ...) with the outcome r
Call(name, m, c, r) ==
    /\ op = "init"
    /\ op' = name
    /\ arg_metric' = m
    /\ arg_config' = c
    /\ ret' = r.val
    /\ exc' = r.exc
    /\ UNCHANGED <<self, chain, first>>

\* the call op(self, ...) with the outcome r, the object passed being
\* after the call what the constructor made of it
CallOn(name, m, c, r, after) ==
    /\ op = "init"
    /\ op' = name
    /\ arg_metric' = m
    /\ arg_config' = c
    /\ ret' = r.val
    /\ exc' = r.exc
    /\ self' = after
    /\ UNCHANGED <<chain, first>>

\* the chained call self.f(..).g(..), on a tensor the caller built: r1 is
\* the outcome of f, g(t) the outcome of g on the tensor t that f returned;
\* an exception of f ends it
Then(r1, g(_)) ==
    IF r1.exc # "none" THEN [first |-> NoObject, exc |-> r1.exc, val |-> NoObject]
    ELSE Bind(g(r1.val), LAMBDA r2 : [first |-> r1.val, exc |-> r2.exc, val |-> r2.val])

Chained(name, m, c, r) ==
    /\ op = "init"
    /\ chain = 0
    /\ op' = name
    /\ arg_metric' = m
    /\ arg_config' = c
    /\ first' = r.first
    /\ ret' = r.val
    /\ exc' = r.exc
    /\ UNCHANGED <<self, chain>>

CallWeylFromRiemann ==
    /\ self.cls = "RiemannCurvatureTensor"
    /\ \E m \in MetricArgs(self) :
          CallOn("WeylTensor.from_riemann", m, <<>>, WeylTensor_from_riemann(self, m),
                 WeylTensor_from_riemann_arg(self, m))

CallWeylFromMetric ==
    /\ self.cls = "MetricTensor"
    /\ Call("WeylTensor.from_metric", None, <<>>, WeylTensor_from_metric(self))

CallLeviCivitaFromMetric ==
    /\ self.cls = "MetricTensor"
    /\ Call("LeviCivitaSymbols.from_metric", None, <<>>, LeviCivitaSymbols_from_metric(self.id))

CallDualFromWeyl ==
    /\ self.cls = "WeylTensor"
    /\ \E m \in MetricArgs(self) :
          CallOn("DualWeylTensor.from_weyltensor", m, <<>>, DualWeylTensor_from_weyltensor(self, m),
                 DualWeylTensor_from_weyltensor_arg(self, m))

CallDualFromRiemann ==
    /\ self.cls = "RiemannCurvatureTensor"
    /\ \E m \in MetricArgs(self) :
          Call("DualWeylTensor.from_riemann", m, <<>>, DualWeylTensor_from_riemann(self, m))

CallDualFromMetric ==
    /\ self.cls = "MetricTensor"
    /\ Call("DualWeylTensor.from_metric", None, <<>>, DualWeylTensor_from_metric(self))

CallWeylChangeConfig ==
    /\ self.cls = "WeylTensor"
    /\ \E c \in TargetConfigs, m \in MetricArgs(self) :
          Call("change_config", m, c, WeylTensor_change_config(self, c, m))

CallDualChangeConfig ==
    /\ self.cls = "DualWeylTensor"
    /\ \E c \in TargetConfigs, m \in MetricArgs(self) :
          Call("change_config", m, c, DualWeylTensor_change_config(self, c, m))

CallLeviCivitaChangeConfig ==
    /\ self.cls = "LeviCivitaSymbols"
    /\ \E c \in TargetConfigs, m \in MetricArgs(self) :
          Call("change_config", m, c, LeviCivitaSymbols_change_config(self, c, m))

\* the metrics of four dimensions, and None
MetricArgs4 == {None} \cup {m \in MetricIds : MetricTensor(m).dims = 4}

CallWeylInit ==
    /\ self.cls = "Array"
    /\ \E c \in InitConfigs, m \in MetricArgs4 :
          Call("__init__", m, c, WeylTensor(self.arr, self.syms, c, m, <<"WeylTensor">>))

CallDualInit ==
    /\ self.cls = "Array"
    /\ \E c \in InitConfigs, m \in MetricArgs4 :
          Call("__init__", m, c, DualWeylTensor(self.arr, self.syms, c, m, <<"DualWeylTensor">>))

CallLeviCivitaInit ==
    /\ self.cls = "Array"
    /\ \E c \in InitConfigs, m \in MetricArgs4 :
          Call("__init__", m, c,
               LeviCivitaSymbols(self.arr, self.syms, c, <<"LeviCivitaSymbols">>, m))

\* the transformation matrix a caller passes: a boost along the first
\* space axis with velocity 3/5 (gamma = 5/4)
Boost(d) ==
    Array(<<d, d>>, [s \in Indices(<<d, d>>) |->
        IF s[1] = s[2] THEN (IF s[1] <= 1 THEN Rat(5, 4) ELSE Num(1))
        ELSE IF s[1] + s[2] = 1 THEN Rat(-3, 4) ELSE Num(0)])

CallWeylLorentzTransform ==
    /\ self.cls = "WeylTensor"
    /\ Call("lorentz_transform", None, <<>>,
            WeylTensor_lorentz_transform(self, Boost(Len(self.syms))))

CallDualLorentzTransform ==
    /\ self.cls = "DualWeylTensor"
    /\ Call("lorentz_transform", None, <<>>,
            DualWeylTensor_lorentz_transform(self, Boost(Len(self.syms))))

\* change_config of the class of the tensor
change_config(self_, newconfig, metric_) ==
    IF self_.cls = "WeylTensor" THEN WeylTensor_change_config(self_, newconfig, metric_)
    ELSE IF self_.cls = "DualWeylTensor" THEN DualWeylTensor_change_config(self_, newconfig, metric_)
    ELSE LeviCivitaSymbols_change_config(self_, newconfig, metric_)

Order4Classes == {"WeylTensor", "DualWeylTensor", "LeviCivitaSymbols"}

\* self.change_config(c, m).change_config(self.config): to c and back, the
\* way back with the metric the new tensor carries
CallRoundTrip ==
    /\ self.cls \in Order4Classes
    /\ \E c \in TargetConfigs, m \in MetricArgs(self) :
          Chained("round_trip", m, c,
                  Then(change_config(self, c, m), LAMBDA t : change_config(t, self.config, None)))

\* self.change_config(c, m).change_config(c): the same target twice
CallChangeConfigTwice ==
    /\ self.cls \in Order4Classes
    /\ \E c \in TargetConfigs, m \in MetricArgs(self) :
          Chained("change_config_twice", m, c,
                  Then(change_config(self, c, m), LAMBDA t : change_config(t, c, None)))

\* the caller goes on with the tensor a constructor returned
Adopt ==
    /\ chain < MaxChain
    /\ op \notin {"change_config", "round_trip", "change_config_twice", "lorentz_transform",
                 "__init__"}
    /\ ret # NoObject
    /\ self' = ret
    /\ chain' = chain + 1
    /\ op' = "init"
    /\ arg_metric' = None
    /\ arg_config' = <<>>
    /\ ret' = NoObject
    /\ exc' = "none"
    /\ first' = NoObject

Next ==
    \/ CallWeylFromRiemann
    \/ CallWeylFromMetric
    \/ CallLeviCivitaFromMetric
    \/ CallDualFromWeyl
    \/ CallDualFromRiemann
    \/ CallDualFromMetric
    \/ CallWeylChangeConfig
    \/ CallDualChangeConfig
    \/ CallLeviCivitaChangeConfig
    \/ CallWeylInit
    \/ CallDualInit
    \/ CallLeviCivitaInit
    \/ CallWeylLorentzTransform
    \/ CallDualLorentzTransform
    \/ CallRoundTrip
    \/ CallChangeConfigTwice
    \/ Adopt

Spec == Init /\ [][Next]_vars

----------------------------------------------------------------------------
(* SpecPipeline: a caller starts from a metric and derives the Christoffel *)
(* symbols, the Riemann and Ricci tensors and the Ricci and Kretschmann    *)
(* scalars, each from the metric or from an object derived before.         *)

InitPipeline ==
    /\ self \in {MetricTensor(m) : m \in MetricIds \cup SchwarzschildIds}
    /\ op = "init"
    /\ arg_metric = None
    /\ arg_config = <<>>
    /\ ret = NoObject
    /\ exc = "none"
    /\ chain = 0
    /\ first = NoObject

CallChristoffelFromMetric ==
    /\ self.cls = "MetricTensor"
    /\ Call("ChristoffelSymbols.from_metric", None, <<>>, ChristoffelSymbols_from_metric(self))

CallRiemannFromChristoffels ==
    /\ self.cls = "ChristoffelSymbols"
    /\ Call("RiemannCurvatureTensor.from_christoffels", None, <<>>,
            RiemannCurvatureTensor_from_christoffels(self, None))

CallRiemannFromMetric ==
    /\ self.cls = "MetricTensor"
    /\ Call("RiemannCurvatureTensor.from_metric", None, <<>>,
            RiemannCurvatureTensor_from_metric(self))

CallRicciTensorFromRiemann ==
    /\ self.cls = "RiemannCurvatureTensor"
    /\ Call("RicciTensor.from_riemann", None, <<>>, RicciTensor_from_riemann(self, None))

CallRicciScalarFromRicciTensor ==
    /\ self.cls = "RicciTensor"
    /\ Call("RicciScalar.from_riccitensor", None, <<>>, RicciScalar_from_riccitensor(self, None))

CallRicciScalarFromRiemann ==
    /\ self.cls = "RiemannCurvatureTensor"
    /\ Call("RicciScalar.from_riemann", None, <<>>, RicciScalar_from_riemann(self, None))

CallRicciScalarFromChristoffels ==
    /\ self.cls = "ChristoffelSymbols"
    /\ Call("RicciScalar.from_christoffels", None, <<>>, RicciScalar_from_christoffels(self, None))

CallRicciScalarFromMetric ==
    /\ self.cls = "MetricTensor"
    /\ Call("RicciScalar.from_metric", None, <<>>, RicciScalar_from_metric(self))

CallKretschmannFromRiemann ==
    /\ self.cls = "RiemannCurvatureTensor"
    /\ Call("KretschmannScalar.from_riemann", None, <<>>,
            KretschmannScalar_from_riemann(self, None))

CallKretschmannFromChristoffels ==
    /\ self.cls = "ChristoffelSymbols"
    /\ Call("KretschmannScalar.from_christoffels", None, <<>>,
            KretschmannScalar_from_christoffels(self, None))

CallKretschmannFromMetric ==
    /\ self.cls = "MetricTensor"
    /\ Call("KretschmannScalar.from_metric", None, <<>>, KretschmannScalar_from_metric(self))

\* the configs a caller converts a Ricci or a Riemann tensor to
RicciConfigs == {ll, uu, ul, lu}
RiemannConfigs == {llll, uuuu, uull, <<"l", "u", "l", "u">>, <<"l", "l", "l", "u">>}

\* the call f(self.change_config(c)): first is the converted tensor
CallConverted(name, c, r) ==
    /\ op = "init"
    /\ op' = name
    /\ arg_metric' = None
    /\ arg_config' = c
    /\ first' = r.first
    /\ ret' = r.val
    /\ exc' = r.exc
    /\ UNCHANGED <<self, chain>>

CallRicciScalarOfConfig ==
    /\ self.cls = "RicciTensor"
    /\ \E c \in RicciConfigs :
          CallConverted("RicciScalar.from_riccitensor", c,
                        Then(RicciTensor_change_config(self, c, None),
                             LAMBDA t : RicciScalar_from_riccitensor(t, None)))

CallSecondRicciOfConfig ==
    /\ self.cls = "RicciTensor"
    /\ \E c \in RicciConfigs :
          CallConverted("SecondRicciInvariant.from_riccitensor", c,
                        Then(RicciTensor_change_config(self, c, None),
                             LAMBDA t : SecondRicciInvariant_from_riccitensor(t, None)))

CallThirdRicciOfConfig ==
    /\ self.cls = "RicciTensor"
    /\ \E c \in RicciConfigs :
          CallConverted("ThirdRicciInvariant.from_riccitensor", c,
                        Then(RicciTensor_change_config(self, c, None),
                             LAMBDA t : ThirdRicciInvariant_from_riccitensor(t, None)))

CallKretschmannOfConfig ==
    /\ self.cls = "RiemannCurvatureTensor"
    /\ \E c \in RiemannConfigs :
          CallConverted("KretschmannScalar.from_riemann", c,
                        Then(RiemannCurvatureTensor_change_config(self, c, None),
                             LAMBDA t : KretschmannScalar_from_riemann(t, None)))

\* the caller goes on with the tensor a constructor returned
AdoptDerived ==
    /\ ret # NoObject
    /\ ret.cls \in {"ChristoffelSymbols", "RiemannCurvatureTensor", "RicciTensor"}
    /\ self' = ret
    /\ chain' = chain + 1
    /\ op' = "init"
    /\ arg_metric' = None
    /\ arg_config' = <<>>
    /\ ret' = NoObject
    /\ exc' = "none"
    /\ first' = NoObject

NextPipeline ==
    \/ CallChristoffelFromMetric
    \/ CallRiemannFromChristoffels
    \/ CallRiemannFromMetric
    \/ CallRicciTensorFromRiemann
    \/ CallRicciScalarFromRicciTensor
    \/ CallRicciScalarFromRiemann
    \/ CallRicciScalarFromChristoffels
    \/ CallRicciScalarFromMetric
    \/ CallKretschmannFromRiemann
    \/ CallKretschmannFromChristoffels
    \/ CallKretschmannFromMetric
    \/ CallRicciScalarOfConfig
    \/ CallSecondRicciOfConfig
    \/ CallThirdRicciOfConfig
    \/ CallKretschmannOfConfig
    \/ AdoptDerived

SpecPipeline == InitPipeline /\ [][NextPipeline]_vars

----------------------------------------------------------------------------
(* SpecContract: the contraction sequences applied to arrays drawn from    *)
(* bounded sets.  Every sequence is multilinear in its operands, so the    *)
(* operands of a bilinear sequence are unit arrays (one component 1), and  *)
(* the operand of a cubic one is a sum of three unit arrays.                *)

CDim == 2       \* the axis length of the operand arrays

Unit(n, d, p) == Array(Cube(n, d), [s \in Indices(Cube(n, d)) |-> IF s = p THEN Num(1) ELSE Num(0)])

\* E_pq + E_qp (E_pp when p = q): the symmetric unit matrices
SymUnit(d, p) ==
    Array(Cube(2, d), [s \in Indices(Cube(2, d)) |->
                          IF s = p \/ s = <<p[2], p[1]>> THEN Num(1) ELSE Num(0)])

\* E_p + E_q + E_r
UnitSum3(n, d, p, q, r) ==
    Array(Cube(n, d), [s \in Indices(Cube(n, d)) |->
        Num((IF s = p THEN 1 ELSE 0) + (IF s = q THEN 1 ELSE 0) + (IF s = r THEN 1 ELSE 0))])

RiemannPairs ==
    {[cls |-> "riemann_cov_con", a |-> Unit(4, CDim, p), b |-> Unit(4, CDim, q)] :
        p \in Indices(Cube(4, CDim)), q \in Indices(Cube(4, CDim))}

RicciPairs ==
    {[cls |-> "ricci_cov_con", a |-> SymUnit(CDim, p), b |-> Unit(2, CDim, q)] :
        p \in Indices(Cube(2, CDim)), q \in Indices(Cube(2, CDim))}

RicciMixed ==
    {[cls |-> "ricci_mix", a |-> UnitSum3(2, CDim, p, q, r)] :
        p \in Indices(Cube(2, CDim)), q \in Indices(Cube(2, CDim)), r \in Indices(Cube(2, CDim))}

\* a matrix with no symmetry
SeedMatrix(k, d) ==
    Array(Cube(2, d), [s \in Indices(Cube(2, d)) |-> Num(((2 * s[1] + 3 * s[2] + k) % 5) - 2)])

\* the operand arrays of the mixed and Weyl invariants: Ricci arrays and
\* Weyl and dual Weyl arrays in the configs the invariant reads them in
InvariantOperands ==
    {[cls |-> "invariant_operands",
      ricci |-> SeedMatrix(kr, CDim), ricci_mix |-> SeedMatrix(kr + 2, CDim),
      weyl_mix |-> SeedArray(kw, CDim), weyl_mix2 |-> SeedArray(kw + 2, CDim),
      weyl_dual |-> SeedArray(kd, CDim), weyl_dual2 |-> SeedArray(kd + 2, CDim)] :
        kr \in {1, 2}, kw \in {1, 2}, kd \in {4, 5}}

InitContract ==
    /\ self \in RiemannPairs \cup RicciPairs \cup RicciMixed \cup InvariantOperands
    /\ arg_metric = 0
    /\ arg_config = <<>>
    /\ op = "init"
    /\ ret = NoObject
    /\ exc = "none"
    /\ chain = 0
    /\ first = NoObject

ContractKretschmann ==
    /\ op = "init" /\ self.cls = "riemann_cov_con"
    /\ op' = "kretschmann_scalar"
    /\ ret' = [cls |-> "expr", expr |-> Expr(kretschmann_scalar(self.a, self.b))]
    /\ UNCHANGED <<self, arg_metric, arg_config, exc, chain, first>>

ContractSecondRicci ==
    /\ op = "init" /\ self.cls = "ricci_cov_con"
    /\ op' = "second_ricci"
    /\ ret' = [cls |-> "expr", expr |-> Expr(second_ricci(self.a, self.b))]
    /\ UNCHANGED <<self, arg_metric, arg_config, exc, chain, first>>

ContractThirdRicci ==
    /\ op = "init" /\ self.cls = "ricci_mix"
    /\ op' = "third_ricci"
    /\ ret' = [cls |-> "expr", expr |-> Expr(third_ricci(self.a))]
    /\ UNCHANGED <<self, arg_metric, arg_config, exc, chain, first>>

ContractThirdMixed ==
    /\ op = "init" /\ self.cls = "invariant_operands"
    /\ op' = "third_mixed"
    /\ ret' = [cls |-> "expr", expr |-> third_mixed(self.ricci, self.weyl_mix, self.weyl_dual)]
    /\ UNCHANGED <<self, arg_metric, arg_config, exc, chain, first>>

ContractFourthMixed ==
    /\ op = "init" /\ self.cls = "invariant_operands"
    /\ op' = "fourth_mixed"
    /\ ret' = [cls |-> "expr", expr |-> fourth_mixed(self.ricci, self.weyl_mix, self.weyl_dual)]
    /\ UNCHANGED <<self, arg_metric, arg_config, exc, chain, first>>

ContractSeventhMixed ==
    /\ op = "init" /\ self.cls = "invariant_operands"
    /\ op' = "seventh_mixed"
    /\ ret' = [cls |-> "expr",
               expr |-> seventh_mixed(self.ricci, self.weyl_mix, self.weyl_mix2,
                                      self.weyl_dual, self.weyl_dual2)]
    /\ UNCHANGED <<self, arg_metric, arg_config, exc, chain, first>>

ContractFirstMixed ==
    /\ op = "init" /\ self.cls = "invariant_operands"
    /\ op' = "first_mixed"
    /\ ret' = [cls |-> "expr",
               expr |-> Expr(first_mixed(self.weyl_mix, self.ricci, self.ricci_mix)),
               joined |-> first_mixed_joined]
    /\ UNCHANGED <<self, arg_metric, arg_config, exc, chain, first>>

ContractThirdWeyl ==
    /\ op = "init" /\ self.cls = "invariant_operands"
    /\ op' = "third_weyl"
    /\ ret' = [cls |-> "expr", expr |-> Expr(third_weyl(self.weyl_mix))]
    /\ UNCHANGED <<self, arg_metric, arg_config, exc, chain, first>>

NextContract ==
    \/ ContractKretschmann
    \/ ContractSecondRicci
    \/ ContractThirdRicci
    \/ ContractThirdMixed
    \/ ContractFourthMixed
    \/ ContractSeventhMixed
    \/ ContractFirstMixed
    \/ ContractThirdWeyl

SpecContract == InitContract /\ [][NextContract]_vars

----------------------------------------------------------------------------
(* SpecScalar: scalar.py, class Scalar.  The expression of a scalar is    *)
(* modelled as a*sin(x)**2 + b*cos(x)**2 + c, the record [sin2 |-> a,      *)
(* cos2 |-> b, const |-> c] of its integer coefficients; two records are   *)
(* two different expression trees.  An object carries an id: two records   *)
(* with the same id are the same Python object.                            *)

MaxCoeff == 1   \* the coefficients of the expressions a caller starts from

ScalarExprs == [sin2 : -MaxCoeff..MaxCoeff, cos2 : -MaxCoeff..MaxCoeff, const : -MaxCoeff..MaxCoeff]

\* the names a caller gives (<<>> is name=None)
ScalarNames == {<<>>, <<"f">>}

\* sympy Expr.simplify(): cos(x)**2 rewritten as 1 - sin(x)**2
expr_simplify(e) == [sin2 |-> e.sin2 - e.cos2, cos2 |-> 0, const |-> e.const + e.cos2]

\* sympy Expr.subs(sym, value) for value 0 or pi/2; a symbol the expression
\* does not hold changes nothing
expr_subs(e, sym, value) ==
    IF sym # "x" THEN e
    ELSE IF value = "0" THEN [sin2 |-> 0, cos2 |-> 0, const |-> e.const + e.cos2]
    ELSE [sin2 |-> 0, cos2 |-> 0, const |-> e.const + e.sin2]

\* Scalar.__init__ on a sympy expression: the object with identity id
Scalar(id, expr, name) == [cls |-> "Scalar", id |-> id, expr |-> expr, name |-> name]

\* the outcome of a method: what it returned and the receiver afterwards
Outcome(val, self_) == [exc |-> "none", val |-> val, self |-> self_]

\* Scalar.subs
Scalar_subs(self_, sym, value, fresh) ==
    Outcome(Scalar(fresh, expr_subs(self_.expr, sym, value), self_.name), self_)

\* simplify returning a new Scalar whatever set_self is
Scalar_simplify_copy(self_, set_self, fresh) ==
    Outcome(Scalar(fresh, expr_simplify(self_.expr), self_.name), self_)

\* Scalar.simplify
Scalar_simplify(self_, set_self, fresh) ==
    IF set_self
    THEN Bind([self_ EXCEPT !.expr = expr_simplify(self_.expr)], LAMBDA s : Outcome(s, s))
    ELSE Outcome(Scalar(fresh, expr_simplify(self_.expr), self_.name), self_)

\* the ways simplify is called: simplify(), simplify(set_self=True),
\* simplify(set_self=False); set_self defaults to True
SimplifyArgs == {<<>>, <<"set_self=True">>, <<"set_self=False">>}
set_self_of(args) == args # <<"set_self=False">>

\* sympy Expr.free_symbols
free_symbols(e) == IF e.sin2 # 0 \/ e.cos2 # 0 THEN {"x"} ELSE {}

\* the symbols in the order of their names
SymbolsByName == <<"r", "t", "x">>

\* list.sort(key=lambda var: var.name) of the symbols of the set S
sorted_by_name(S) == SelectSeq(SymbolsByName, LAMBDA v : v \in S)

\* [v for v in self.expr.free_symbols if v not in self.syms], sorted
variables_of(expr, syms, variables) ==
    IF variables = <<>>
    THEN sorted_by_name({v \in free_symbols(expr) : \A n \in 1..Len(syms) : syms[n] # v})
    ELSE variables

\* BaseRelativityScalar.__init__ (also of a subclass cls), on a sympy
\* expression without undefined functions
BaseRelativityScalar__init__(cls, id, expr, syms, parent_metric, variables, name) ==
    [cls |-> cls, id |-> id, expr |-> expr, name |-> name,
     parent_metric |-> parent_metric, syms |-> syms, dims |-> Len(syms),
     variables |-> variables_of(expr, syms, variables), functions |-> <<>>]

RelativityScalarClasses == {"BaseRelativityScalar", "KretschmannScalar"}

\* the coordinate symbols a caller gives: with x among them, and without
ScalarSyms == {<<"t", "x">>, <<"t", "r">>}

RelativityScalars ==
    {BaseRelativityScalar__init__(c, 1, e, syms, m, <<>>, <<"GenericScalar">>) :
        c \in RelativityScalarClasses, e \in ScalarExprs, syms \in ScalarSyms, m \in {None, 1}}

InitScalar ==
    /\ self \in {Scalar(1, e, n) : e \in ScalarExprs, n \in ScalarNames} \cup RelativityScalars
    /\ op = "init"
    /\ arg_metric = None
    /\ arg_config = <<>>
    /\ ret = NoObject
    /\ exc = "none"
    /\ chain = 0
    /\ first = NoObject

\* the method call with arguments args and outcome r
CallMethod(name, args, r) ==
    /\ op' = name
    /\ arg_config' = args
    /\ ret' = r.val
    /\ exc' = r.exc
    /\ self' = r.self
    /\ UNCHANGED <<arg_metric, chain, first>>

CallSimplify ==
    \E args \in SimplifyArgs :
        CallMethod("simplify", args, Scalar_simplify(self, set_self_of(args), self.id + 1))

CallSubs ==
    \E sym \in {"x", "y"}, value \in {"0", "pi/2"} :
        CallMethod("subs", <<sym, value>>, Scalar_subs(self, sym, value, self.id + 1))

NextScalar == CallSimplify \/ CallSubs

SpecScalar == InitScalar /\ [][NextScalar]_vars

----------------------------------------------------------------------------
RECURSIVE SumFrom(_, _, _)
\* the sum of f over the index tuples of the shape that begin with prefix
SumFrom(shape, prefix, f) ==
    IF Len(prefix) = Len(shape) THEN f[prefix]
    ELSE RSum([i \in 0..(shape[Len(prefix) + 1] - 1) |-> SumFrom(shape, Append(prefix, i), f)],
              shape[Len(prefix) + 1])

SumOver(shape, f) == SumFrom(shape, <<>>, f)

\* C1: the Kretschmann contraction sequence pairs each axis of the
\* covariant array with the same-numbered axis of the contravariant one:
\* the result is the sum over (i,j,k,l) of cov[i,j,k,l] * con[i,j,k,l].
C1_KretschmannPairsSameAxes ==
    op = "kretschmann_scalar" =>
        ret.expr = SumOver(self.a.shape,
                           [s \in Indices(self.a.shape) |-> RMul(self.a.val[s], self.b.val[s])])

C1_Witness ==
    /\ op = "kretschmann_scalar"
    /\ ret.expr = Num(1)

\* C2: the third Ricci contraction sequence is the trace of the cube of
\* the mixed array: the sum over i,j,k of M[i,j] * M[j,k] * M[k,i].
C2_ThirdRicciIsTraceOfCube ==
    op = "third_ricci" =>
        LET d == self.a.shape[1]
            M == self.a.val
        IN  ret.expr = SumOver(Cube(3, d),
                [s \in Indices(Cube(3, d)) |->
                    RMul(RMul(M[<<s[1], s[2]>>], M[<<s[2], s[3]>>]), M[<<s[3], s[1]>>])])

C2_Witness ==
    /\ op = "third_ricci"
    /\ self.a.val[<<0, 1>>] # self.a.val[<<1, 0>>]
    /\ ret.expr # Num(0)

\* C3: for a symmetric Ricci array the second Ricci invariant is the same
\* whether the axes are paired first-first, second-second (as the code
\* does) or first-second, second-first.
C3_SecondRicciEitherAxisOrder ==
    op = "second_ricci" =>
        ret.expr = Expr(ContractSeq(tensorproduct(self.a, self.b), <<<<0, 3>>, <<0, 1>>>>))

C3_Witness ==
    /\ op = "second_ricci"
    /\ self.a.val[<<0, 1>>] = Num(1)
    /\ self.b.val[<<0, 1>>] # self.b.val[<<1, 0>>]
    /\ ret.expr = Num(1)

----------------------------------------------------------------------------
\* the metric a call settles on: the one given, else the parent metric of self
Resolved == IF arg_metric # None THEN arg_metric ELSE self.parent_metric

AllZero(A) == \A s \in Indices(A.shape) : A.val[s] = Num(0)

\* C4: for d > 3 WeylTensor.from_riemann sets every component (i,k,l,m) to
\* R[i,k,l,m] + (Ric[i,m]g[k,l] - Ric[i,l]g[k,m] + Ric[k,l]g[i,m]
\* - Ric[k,m]g[i,l]) / (d-2) + S (g[i,l]g[k,m] - g[i,m]g[k,l]) / ((d-1)(d-2)),
\* stated here multiplied through by (d-1)(d-2); and the decomposition of
\* the loop counter is a bijection onto the index tuples.
C4_WeylFormulaEveryIndexOnce ==
    (op = "WeylTensor.from_riemann" /\ exc = "none" /\ ret.arr.shape[1] > 3) =>
        LET d == ret.arr.shape[1]
            g == lower_config(ret.parent_metric).val
            R == (IF self.config = llll THEN self
                  ELSE RiemannCurvatureTensor_change_config(self, llll, None).val).arr.val
            Ric == RicciTensor_from_riemann(self, None).val
            S == RicciScalar_from_riccitensor(Ric, None).val.expr
            T == Ric.arr.val
            image == {weyl_index(t, d) : t \in 0..(d ^ 4 - 1)}
        IN  /\ image = Indices(Cube(4, d))
            /\ Cardinality(image) = d ^ 4
            /\ \A s \in Indices(Cube(4, d)) :
                 LET i == s[1]
                     k == s[2]
                     l == s[3]
                     m == s[4]
                     A == RSub(RAdd(RSub(RMul(T[<<i, m>>], g[<<k, l>>]),
                                         RMul(T[<<i, l>>], g[<<k, m>>])),
                                    RMul(T[<<k, l>>], g[<<i, m>>])),
                               RMul(T[<<k, m>>], g[<<i, l>>]))
                     B == RSub(RMul(g[<<i, l>>], g[<<k, m>>]), RMul(g[<<i, m>>], g[<<k, l>>]))
                 IN  RMul(Num((d - 1) * (d - 2)), RSub(ret.arr.val[s], R[s]))
                       = RAdd(RMul(Num(d - 1), A), RMul(S, B))

C4_Witness ==
    /\ op = "WeylTensor.from_riemann"
    /\ exc = "none"
    /\ ret.arr.shape[1] = 5
    /\ self.config = llll
    /\ \E s \in Indices(ret.arr.shape) :
          ret.arr.val[s] # self.arr.val[s] /\ ret.arr.val[s][2] # 1

\* C5: the Weyl tensor of a 3-dimensional metric, from from_riemann or
\* from_metric, is returned as an order-4 tensor in config llll with every
\* component 0.
C5_WeylOf3DimMetricIsZero ==
    ( \/ (op = "WeylTensor.from_riemann" /\ Resolved # None /\ MetricTensor(Resolved).dims = 3)
      \/ (op = "WeylTensor.from_metric" /\ self.dims = 3) ) =>
        /\ exc = "none"
        /\ ret.cls = "WeylTensor"
        /\ ret.config = llll
        /\ ret.arr.shape = <<3, 3, 3, 3>>
        /\ AllZero(ret.arr)

C5_Witness ==
    /\ op = "WeylTensor.from_riemann"
    /\ Resolved # None
    /\ MetricTensor(Resolved).dims = 3
    /\ ~AllZero(self.arr)
    /\ ret.cls = "WeylTensor"
    /\ AllZero(ret.arr)

\* C6: WeylTensor.from_riemann raises the dimension error and returns no
\* tensor when the metric it settles on has dimension below 3.
C6_WeylRaisesBelow3 ==
    (op = "WeylTensor.from_riemann" /\ Resolved # None /\ MetricTensor(Resolved).dims < 3) =>
        exc = WeylDimension /\ ret = NoObject

C6_Witness ==
    /\ op = "WeylTensor.from_riemann"
    /\ Resolved # None
    /\ MetricTensor(Resolved).dims = 2
    /\ exc = WeylDimension

DimensionErrors == {WeylDimension, DualDimension, LeviCivitaDimension}

\* C7: LeviCivitaSymbols.from_metric and DualWeylTensor.from_weyltensor,
\* from_riemann and from_metric raise a dimension error for a metric whose
\* dimension is not 4.
C7_DimensionErrorUnlessDim4 ==
    /\ (op \in {"LeviCivitaSymbols.from_metric", "DualWeylTensor.from_metric"} /\ self.dims # 4)
          => exc \in DimensionErrors
    /\ (op \in {"DualWeylTensor.from_weyltensor", "DualWeylTensor.from_riemann"}
          /\ Resolved # None /\ MetricTensor(Resolved).dims # 4)
          => exc \in DimensionErrors

C7_FailingInput ==
    /\ op = "DualWeylTensor.from_metric"
    /\ self.dims = 3
    /\ exc = NotAMetric

Sgn(x) == IF x > 0 THEN 1 ELSE IF x < 0 THEN -1 ELSE 0

\* the sign of the arrangement s of four indices: the product of the signs
\* of s[b] - s[a] over the pairs a < b (0 when an index repeats)
Sign4(s) ==
    Sgn(s[2] - s[1]) * Sgn(s[3] - s[1]) * Sgn(s[4] - s[1])
        * Sgn(s[3] - s[2]) * Sgn(s[4] - s[2]) * Sgn(s[4] - s[3])

\* C8: for a 4-dimensional metric LeviCivitaSymbols.from_metric returns a
\* 4x4x4x4 array whose component at [a,b,c,d] is sqrt(|det g|) times the
\* parity of (a,b,c,d) (+1 even, -1 odd, 0 when an index repeats): the
\* value computed for an index tuple lands at that tuple.
C8_LeviCivitaIsScaledParity ==
    (op = "LeviCivitaSymbols.from_metric" /\ self.dims = 4) =>
        /\ exc = "none"
        /\ ret.arr.shape = <<4, 4, 4, 4>>
        /\ LET scale == ret.arr.val[<<0, 1, 2, 3>>]
           IN  /\ scale[1] > 0
               /\ RMul(scale, scale) = RAbs(MatDet(self.arr))
               /\ \A s \in Indices(ret.arr.shape) : ret.arr.val[s] = RMul(scale, Num(Sign4(s)))

C8_Witness ==
    /\ op = "LeviCivitaSymbols.from_metric"
    /\ exc = "none"
    /\ MatDet(self.arr) = Num(-4)
    /\ ret.arr.val[<<0, 1, 2, 3>>] = Num(2)
    /\ ret.arr.val[<<0, 1, 3, 2>>] = Num(-2)
    /\ ret.arr.val[<<0, 1, 1, 2>>] = Num(0)

\* C9: for d = 4 DualWeylTensor.from_weyltensor returns, in config llll, the
\* array with result[i,j,m,n] = 1/2 * sum over k,l of eps[i,j,k,l] *
\* C[k,l,m,n], eps the Levi-Civita array (llll) and C the Weyl array in
\* config uull.
C9_DualWeylSumsLastTwoAgainstFirstTwo ==
    (op = "DualWeylTensor.from_weyltensor" /\ exc = "none") =>
        LET eps == LeviCivitaSymbols_from_metric(ret.parent_metric).val.arr.val
            C == (IF self.config = uull THEN self
                  ELSE WeylTensor_change_config(self, uull, None).val).arr.val
        IN  /\ ret.cls = "DualWeylTensor"
            /\ ret.config = llll
            /\ ret.arr.shape = <<4, 4, 4, 4>>
            /\ \A s \in Indices(ret.arr.shape) :
                  ret.arr.val[s] =
                      RMul(<<1, 2>>,
                           RSum([k \in 0..3 |->
                                    RSum([l \in 0..3 |->
                                             RMul(eps[<<s[1], s[2], k, l>>],
                                                  C[<<k, l, s[3], s[4]>>])], 4)], 4))

C9_Witness ==
    /\ op = "DualWeylTensor.from_weyltensor"
    /\ exc = "none"
    /\ self.config = llll
    /\ ret.config = llll
    /\ \E s \in Indices(ret.arr.shape) : ret.arr.val[s][2] = 2

\* C10: change_config on a WeylTensor, DualWeylTensor or LeviCivitaSymbols
\* converts (to a config of four letters) with the metric given, else with
\* the parent metric of the tensor; with neither it raises the
\* missing-metric error and returns no tensor; the tensor it is called on
\* stays as it was.
C10_ChangeConfigResolvesMetric ==
    [][op' = "change_config" =>
        /\ self' = self
        /\ self.cls \in {"WeylTensor", "DualWeylTensor", "LeviCivitaSymbols"}
        /\ LET metric == IF arg_metric' # None THEN arg_metric' ELSE self.parent_metric
           IN  IF metric = None THEN exc' = MissingMetric /\ ret' = NoObject
               ELSE IF Len(arg_config') # 4 THEN exc' # MissingMetric
               ELSE /\ exc' = "none"
                    /\ ret'.cls = self.cls
                    /\ ret'.config = arg_config'
                    /\ ret'.parent_metric = metric
                    /\ ret'.arr = ChainConfigChange(self.arr, self.config, metric, arg_config', 1)
    ]_vars

C10_Witness ==
    /\ op = "change_config"
    /\ self.parent_metric = None
    /\ arg_metric = None
    /\ exc = MissingMetric
    /\ ret = NoObject

\* C11: a change_config that succeeds returns a tensor of the class of
\* self with the same symbols, config newconfig, the metric converted with
\* as parent_metric, and the name of self followed by "__" and newconfig.
C11_ChangeConfigResultFields ==
    (op = "change_config" /\ exc = "none") =>
        /\ ret.cls = self.cls
        /\ ret.syms = self.syms
        /\ ret.config = arg_config
        /\ ret.parent_metric = Resolved
        /\ ret.name = self.name \o <<"__">> \o arg_config

C11_Witness ==
    /\ op = "change_config"
    /\ exc = "none"
    /\ self.cls = "DualWeylTensor"
    /\ self.parent_metric \notin {None, arg_metric}
    /\ arg_metric # None
    /\ ret.cls = "DualWeylTensor"
    /\ ret.config = uull
    /\ ret.name = <<"DualWeylTensor", "__", "u", "u", "l", "l">>

\* the two tensors have the same class, symbols, config and components
SameTensor(a, b) ==
    /\ a.cls = b.cls
    /\ a.syms = b.syms
    /\ a.config = b.config
    /\ a.arr = b.arr

\* C12: with a config c1 of four letters and a metric to convert with (all
\* of them have a nonzero determinant),
\* T.change_config(c1).change_config(T.config) succeeds and returns a tensor
\* with the components, config, class and symbols of T.
C12_ChangeConfigRoundTrip ==
    (op = "round_trip" /\ Len(arg_config) = 4 /\ Resolved # None) =>
        (exc = "none" /\ SameTensor(ret, self))

C12_Witness ==
    /\ op = "round_trip"
    /\ exc = "none"
    /\ self.cls = "WeylTensor"
    /\ Resolved # None
    /\ MetricTensor(Resolved).arr = Sheared(<<-1, 3, 1, 1>>)
    /\ arg_config = uull
    /\ self.config = llll
    /\ first.arr # self.arr
    /\ ret.arr = self.arr

\* C13: change_config(c) applied to the result of change_config(c) raises
\* when the first call raised, and else returns a tensor with the
\* components, config, class, symbols and parent_metric of that result.
C13_ChangeConfigIdempotent ==
    op = "change_config_twice" =>
        IF first = NoObject THEN ret = NoObject /\ exc # "none"
        ELSE exc = "none" /\ SameTensor(ret, first) /\ ret.parent_metric = first.parent_metric

C13_Witness ==
    /\ op = "change_config_twice"
    /\ exc = "none"
    /\ self.cls = "LeviCivitaSymbols"
    /\ self.parent_metric = None
    /\ arg_metric # None
    /\ first.arr # self.arr
    /\ ret.arr = first.arr
    /\ ret.name = <<"LeviCivitaSymbols", "__", "u", "u", "l", "l", "__", "u", "u", "l", "l">>

\* C14: WeylTensor.from_riemann and DualWeylTensor.from_weyltensor, called
\* on a tensor without parent metric and without a metric argument, raise
\* the missing-metric error and return nothing.
C14_MissingMetricRaised ==
    (/\ op \in {"WeylTensor.from_riemann", "DualWeylTensor.from_weyltensor"}
     /\ Resolved = None)
        => (exc = MissingMetric /\ ret = NoObject)

C14_FailingInput ==
    /\ op = "WeylTensor.from_riemann"
    /\ self.cls = "RiemannCurvatureTensor"
    /\ self.parent_metric = None
    /\ arg_metric = None
    /\ exc = NoneHasNoDims
    /\ ret = NoObject

C17_LorentzTransformClearsMetric ==
    [][(op' = "lorentz_transform") =>
          /\ exc' = "none"
          /\ ret'.cls = self.cls
          /\ ret'.config = self.config
          /\ Len(ret'.arr.shape) = 4
          /\ ret'.syms = self.syms
          /\ ret'.parent_metric = None
          /\ ret'.name = self.name \o <<"__lt">>
          /\ self' = self
      ]_vars

C17_Witness ==
    /\ op = "lorentz_transform"
    /\ self.cls = "DualWeylTensor"
    /\ self.parent_metric # None
    /\ ret.cls = "DualWeylTensor"
    /\ ret.parent_metric = None
    /\ ret.name = <<"DualWeylTensor", "__lt">>
    /\ ret.arr # self.arr

\* C20: constructing a WeylTensor, DualWeylTensor or LeviCivitaSymbols with
\* a config of a length other than 4, or calling change_config with one,
\* raises and returns no tensor.
C20_Order4Enforced ==
    (op \in {"__init__", "change_config"} /\ Len(arg_config) # 4) =>
        (exc # "none" /\ ret = NoObject)

\* a rank-3 array with a config of three letters, which the base class
\* accepts, refused by the class for its length
C20_Witness ==
    /\ op = "__init__"
    /\ Len(self.arr.shape) = 3
    /\ arg_config = <<"l", "l", "l">>
    /\ exc = ConfigLength
    /\ ret = NoObject

\* the flat metric diag(-1, 1, 1, 1) in (t, x, y, z), its components constant
Minkowski(metric) ==
    /\ metric.cls = "MetricTensor"
    /\ metric.arr = Diag(<<-1, 1, 1, 1>>)
    /\ metric.syms = <<"t", "x", "y", "z">>
    /\ AllZero(metric.d1)
    /\ AllZero(metric.d2)

\* C18: from the Minkowski metric, ChristoffelSymbols.from_metric and
\* RiemannCurvatureTensor.from_metric return arrays of zeros, and
\* RicciScalar.from_metric and KretschmannScalar.from_metric return 0.
C18_MinkowskiIsFlat ==
    Minkowski(self) =>
        /\ op \in {"ChristoffelSymbols.from_metric", "RiemannCurvatureTensor.from_metric"}
               => (exc = "none" /\ AllZero(ret.arr))
        /\ op \in {"RicciScalar.from_metric", "KretschmannScalar.from_metric"}
               => (exc = "none" /\ ret.expr = Num(0))

C18_Witness ==
    /\ Minkowski(self)
    /\ op = "KretschmannScalar.from_metric"
    /\ ret.cls = "KretschmannScalar"
    /\ ret.expr = Num(0)

\* the mass and radius of the sample point of a Schwarzschild metric
PointOf(metric) == SchwarzschildPoints[metric.id - Len(MetricArrays)]

IsSchwarzschild(metric) == metric.cls = "MetricTensor" /\ metric.id \in SchwarzschildIds

\* C19: from the Schwarzschild metric of mass M, at radius r,
\* RicciScalar.from_metric returns 0 and KretschmannScalar.from_metric
\* returns 48 M**2 / r**6.
C19_SchwarzschildInvariants ==
    IsSchwarzschild(self) =>
        /\ op = "RicciScalar.from_metric" => (exc = "none" /\ ret.expr = Num(0))
        /\ op = "KretschmannScalar.from_metric" =>
               /\ exc = "none"
               /\ ret.expr = Rat(48 * PointOf(self).M ^ 2, PointOf(self).r ^ 6)

\* off the equatorial plane, at r = 4 M
C19_Witness ==
    /\ IsSchwarzschild(self)
    /\ PointOf(self).r = 4
    /\ PointOf(self).sin = Rat(3, 5)
    /\ op = "KretschmannScalar.from_metric"
    /\ ret.expr = Rat(3, 256)

----------------------------------------------------------------------------
\* C21: DualWeylTensor.from_riemann(riemann), for a Riemann tensor of a
\* 4-dimensional metric, succeeds and returns what
\* DualWeylTensor.from_weyltensor(WeylTensor.from_riemann(riemann)) returns;
\* DualWeylTensor.from_metric(m) on a 4-dimensional metric succeeds and
\* returns what from_weyltensor(WeylTensor.from_metric(m)) returns.
C21_DualFromRiemannIsDualOfWeyl ==
    /\ (/\ op = "DualWeylTensor.from_riemann"
        /\ arg_metric = None
        /\ self.parent_metric # None
        /\ MetricTensor(self.parent_metric).dims = 4)
          => /\ exc = "none"
             /\ LET e == Then(WeylTensor_from_riemann(self, None),
                              LAMBDA w : DualWeylTensor_from_weyltensor(w, None))
                IN  e.exc = "none" /\ ret = e.val
    /\ (op = "DualWeylTensor.from_metric" /\ self.dims = 4)
          => /\ exc = "none"
             /\ LET e == Then(WeylTensor_from_metric(self),
                              LAMBDA w : DualWeylTensor_from_weyltensor(w, None))
                IN  e.exc = "none" /\ ret = e.val

C21_FailingInput ==
    /\ op = "DualWeylTensor.from_riemann"
    /\ self.cls = "RiemannCurvatureTensor"
    /\ arg_metric = None
    /\ self.parent_metric # None
    /\ MetricTensor(self.parent_metric).dims = 4
    /\ exc = NotAMetric
    /\ ret = NoObject

\* C22: WeylTensor.from_riemann called with an explicit metric of three or
\* more dimensions on a Riemann tensor that has no parent metric uses that
\* metric throughout, and succeeds.
C22_ExplicitMetricSuffices ==
    (/\ op = "WeylTensor.from_riemann"
     /\ self.parent_metric = None
     /\ arg_metric # None
     /\ MetricTensor(arg_metric).dims >= 3)
        => (exc = "none" /\ ret # NoObject)

C22_FailingInput ==
    /\ op = "WeylTensor.from_riemann"
    /\ self.cls = "RiemannCurvatureTensor"
    /\ self.parent_metric = None
    /\ self.config = ulll
    /\ arg_metric # None
    /\ MetricTensor(arg_metric).dims = 4
    /\ exc = MissingMetric
    /\ ret = NoObject

\* C23: the object WeylTensor.from_riemann returns has the explicitly
\* supplied metric as parent_metric when one is given, and otherwise the
\* parent metric of the Riemann tensor.
C23_ResultParentMetric ==
    (op = "WeylTensor.from_riemann" /\ exc = "none") => ret.parent_metric = Resolved

C23_FailingInput ==
    /\ op = "WeylTensor.from_riemann"
    /\ self.cls = "RiemannCurvatureTensor"
    /\ self.parent_metric = None
    /\ arg_metric # None
    /\ MetricTensor(arg_metric).dims = 3
    /\ exc = "none"
    /\ ret.parent_metric = None

----------------------------------------------------------------------------
\* the summand of the mixed invariants: whole(C, C') + sign * whole(D, D'),
\* C' and D' read at the index tuple q(s), with s = (i,j,k,l,o,p)
MixedSum(ricci, c1, c2, d1, d2, back) ==
    SumOver(Cube(6, ricci.shape[1]),
        [s \in Indices(Cube(6, ricci.shape[1])) |->
            LET a == <<s[5], s[1], s[2], s[6]>>
                b == IF back THEN <<s[6], s[3], s[4], s[5]>> ELSE <<s[5], s[3], s[4], s[6]>>
            IN  RMul(RMul(ricci.val[<<s[1], s[2]>>], ricci.val[<<s[3], s[4]>>]),
                     RAdd(RMul(c1.val[a], c2.val[b]), RMul(d1.val[a], d2.val[b])))])

\* C24: the loops of ThirdMixedInvariant, FourthMixedInvariant and
\* SeventhMixedInvariant.from_riemann add their summand exactly once for
\* every index tuple (i,j,k,l,o,p): the third is the sum over all six
\* indices of R[i,j] R[k,l] (C[o,i,j,p] C[p,k,l,o] - D[o,i,j,p] D[p,k,l,o]),
\* the fourth of -R[i,j] R[k,l] (D[o,i,j,p] C[p,k,l,o] + C[o,i,j,p] D[p,k,l,o]),
\* the seventh of 1/16 R[i,j] R[k,l] (C1[o,i,j,p] C2[o,k,l,p] + D1[o,i,j,p] D2[o,k,l,p]).
C24_MixedLoopsSumEveryTupleOnce ==
    /\ op = "third_mixed" =>
          ret.expr = RSub(MixedSum(self.ricci, self.weyl_mix, self.weyl_mix,
                                   Zeros(4, CDim), Zeros(4, CDim), TRUE),
                          MixedSum(self.ricci, self.weyl_dual, self.weyl_dual,
                                   Zeros(4, CDim), Zeros(4, CDim), TRUE))
    /\ op = "fourth_mixed" =>
          ret.expr = RNeg(MixedSum(self.ricci, self.weyl_dual, self.weyl_mix,
                                   self.weyl_mix, self.weyl_dual, TRUE))
    /\ op = "seventh_mixed" =>
          ret.expr = RMul(<<1, 16>>, MixedSum(self.ricci, self.weyl_mix, self.weyl_mix2,
                                              self.weyl_dual, self.weyl_dual2, FALSE))

C24_Witness ==
    /\ op = "third_mixed"
    /\ self.weyl_mix.val[<<0, 0, 0, 1>>] # self.weyl_mix.val[<<1, 0, 0, 0>>]
    /\ self.weyl_mix.val[<<0, 0, 1, 0>>] # self.weyl_mix.val[<<0, 1, 0, 0>>]
    /\ self.ricci.val[<<0, 1>>] # self.ricci.val[<<1, 0>>]
    /\ ret.expr # Num(0)

\* C25: the two-stage contraction of FirstMixedInvariant.from_riemann is
\* the sum over i,j,k,l of C[i,k,l,j] * Rcon[k,l] * Rmix[j,i], and each of
\* its four contractions joins a lower index with an upper one.
C25_FirstMixedIsFullContraction ==
    op = "first_mixed" =>
        /\ ret.expr = SumOver(Cube(4, CDim),
              [s \in Indices(Cube(4, CDim)) |->
                  RMul(RMul(self.weyl_mix.val[<<s[1], s[3], s[4], s[2]>>],
                            self.ricci.val[<<s[3], s[4]>>]),
                       self.ricci_mix.val[<<s[2], s[1]>>])])
        /\ Len(ret.joined) = 4
        /\ \A n \in 1..Len(ret.joined) : {ret.joined[n][1], ret.joined[n][2]} = {"l", "u"}

C25_Witness ==
    /\ op = "first_mixed"
    /\ self.ricci.val[<<0, 1>>] # self.ricci.val[<<1, 0>>]
    /\ self.ricci_mix.val[<<0, 1>>] # self.ricci_mix.val[<<1, 0>>]
    /\ self.weyl_mix.val[<<0, 0, 1, 0>>] # self.weyl_mix.val[<<0, 1, 0, 0>>]
    /\ ret.expr # Num(0)

\* C26: the staged contraction of ThirdWeylInvariant.from_weyltensor is the
\* single full contraction of the triple product: the sum over i,j,k,l,o,p
\* of W[i,j,k,l] * W[k,l,o,p] * W[o,p,i,j].
C26_ThirdWeylIsFullContraction ==
    op = "third_weyl" =>
        ret.expr = SumOver(Cube(6, CDim),
            [s \in Indices(Cube(6, CDim)) |->
                RMul(RMul(self.weyl_mix.val[<<s[1], s[2], s[3], s[4]>>],
                          self.weyl_mix.val[<<s[3], s[4], s[5], s[6]>>]),
                     self.weyl_mix.val[<<s[5], s[6], s[1], s[2]>>])])

C26_Witness ==
    /\ op = "third_weyl"
    /\ self.weyl_mix.val[<<0, 0, 0, 1>>] # self.weyl_mix.val[<<0, 1, 0, 0>>]
    /\ self.weyl_mix.val[<<0, 0, 0, 1>>] # self.weyl_mix.val[<<0, 0, 1, 0>>]
    /\ ret.expr # Num(0)

----------------------------------------------------------------------------
\* the invariant computed from the tensor as the caller holds it
Unconverted ==
    IF op = "RicciScalar.from_riccitensor" THEN RicciScalar_from_riccitensor(self, None)
    ELSE IF op = "SecondRicciInvariant.from_riccitensor"
         THEN SecondRicciInvariant_from_riccitensor(self, None)
    ELSE IF op = "ThirdRicciInvariant.from_riccitensor"
         THEN ThirdRicciInvariant_from_riccitensor(self, None)
    ELSE KretschmannScalar_from_riemann(self, None)

\* C27: RicciScalar, SecondRicciInvariant and ThirdRicciInvariant
\* .from_riccitensor and KretschmannScalar.from_riemann, called on the
\* tensor that change_config made of a Ricci (Riemann) tensor, return the
\* value they return for that tensor itself, whatever the config.
C27_InvariantsConfigIndependent ==
    (/\ op \in {"RicciScalar.from_riccitensor", "SecondRicciInvariant.from_riccitensor",
                "ThirdRicciInvariant.from_riccitensor", "KretschmannScalar.from_riemann"}
     /\ arg_config # <<>>)
        => /\ exc = "none"
           /\ first.config = arg_config
           /\ Unconverted.exc = "none"
           /\ ret.expr = Unconverted.val.expr

C27_Witness ==
    /\ op = "RicciScalar.from_riccitensor"
    /\ arg_config = uu
    /\ self.config = ll
    /\ first.arr # self.arr
    /\ exc = "none"
    /\ ret.expr # Num(0)
    /\ ret.expr # Expr(tensorcontraction(first.arr, 0, 1))

----------------------------------------------------------------------------
\* A[i,k,l,m] = -A[k,i,l,m] = -A[i,k,m,l]
PairAntisymmetric(A) ==
    \A s \in Indices(A.shape) :
        /\ A.val[s] = RNeg(A.val[<<s[2], s[1], s[3], s[4]>>])
        /\ A.val[s] = RNeg(A.val[<<s[1], s[2], s[4], s[3]>>])

SymmetricMatrix(M) == \A s \in Indices(M.shape) : M.val[s] = M.val[<<s[2], s[1]>>]

\* C28: the covariant Weyl tensor that WeylTensor.from_riemann builds for a
\* metric of more than three dimensions is antisymmetric in its first two
\* and in its last two indices, when the covariant Riemann array is and
\* the Ricci tensor and the metric are symmetric.
C28_WeylAntisymmetric ==
    (/\ op = "WeylTensor.from_riemann"
     /\ exc = "none"
     /\ ret.arr.shape[1] > 3
     /\ self.config = llll
     /\ PairAntisymmetric(self.arr)
     /\ SymmetricMatrix(lower_config(ret.parent_metric))
     /\ SymmetricMatrix(RicciTensor_from_riemann(self, None).val.arr))
        => (ret.config = llll /\ PairAntisymmetric(ret.arr))

C28_Witness ==
    /\ op = "WeylTensor.from_riemann"
    /\ exc = "none"
    /\ ret.arr.shape[1] > 3
    /\ self.config = llll
    /\ PairAntisymmetric(self.arr)
    /\ SymmetricMatrix(lower_config(ret.parent_metric))
    /\ lower_config(ret.parent_metric).val[<<0, 1>>] # Num(0)
    /\ SymmetricMatrix(RicciTensor_from_riemann(self, None).val.arr)
    /\ \E s \in Indices(ret.arr.shape) :
          ret.arr.val[s] # Num(0) /\ ret.arr.val[s] # self.arr.val[s]

----------------------------------------------------------------------------
\* C29: a BaseRelativityScalar built without explicit variables has, after
\* any sequence of simplify and subs calls, dims equal to len(syms) and as
\* variables the free symbols of its current expression that are not
\* coordinate symbols, sorted by name.
C29_VariablesNeverStale ==
    self.cls \in RelativityScalarClasses =>
        /\ self.dims = Len(self.syms)
        /\ self.variables = variables_of(self.expr, self.syms, <<>>)

C29_FailingInput ==
    /\ op = "simplify"
    /\ arg_config = <<>>
    /\ self.cls = "BaseRelativityScalar"
    /\ self.syms = <<"t", "r">>
    /\ self.expr = [sin2 |-> 0, cos2 |-> 0, const |-> 1]
    /\ free_symbols(self.expr) = {}
    /\ self.variables = <<"x">>
    /\ ret = self

\* C30: subs and simplify called on a relativity scalar return a scalar of
\* the same class that has the coordinate symbols, the parent metric and
\* the name of the scalar they were called on.
C30_MethodsKeepClassAndFrame ==
    (op \in {"subs", "simplify"} /\ self.cls \in RelativityScalarClasses) =>
        /\ exc = "none"
        /\ ret.cls = self.cls
        /\ ret.syms = self.syms
        /\ ret.parent_metric = self.parent_metric
        /\ ret.name = self.name

C30_FailingInput ==
    /\ op = "subs"
    /\ self.cls = "KretschmannScalar"
    /\ self.parent_metric = 1
    /\ exc = "none"
    /\ ret.cls = "Scalar"
    /\ DOMAIN ret = {"cls", "id", "expr", "name"}
    /\ ret.name = self.name

====
